---- MODULE Spec2Model ----
(***************************************************************************)
(* A model of the PSD analysis engine of Tool4S:                           *)
(*   - PSDLoadingWorker (gui/dialogs/psd_pdf_dialog.py): the cross-file    *)
(*     probability aggregator, specification SpecAgg;                      *)
(*   - PSDPDFDialog.scan_files (same file): the time-window filter on PSD  *)
(*     artifact file names, specification SpecScan;                        *)
(*   - PSDCalculator (core/psd.py): configuration and calculate_psd,       *)
(*     specifications SpecCalc and SpecFn;                                 *)
(*   - PSDProcessingWorker (gui/dialogs/psd_calculation_dialog.py): the    *)
(*     batch run over waveform files, specification SpecBatch;             *)
(*   - PSDPDFDialog with the loading workers it starts: the plot requests, *)
(*     specification SpecPlot, the scans and the ends of a run, SpecLoad   *)
(*     and SpecLoadFair, and the pages of the plots, SpecPages.            *)
(* The subsystems share no state; each specification moves its own         *)
(* variables and leaves the others at their initial value.                 *)
(***************************************************************************)
EXTENDS Integers, Sequences, FiniteSets, TLC

VARIABLES
    \* PSDLoadingWorker
    files, pc, gi, result_data, total_files, processed_files, signals, log,
    \* PSDPDFDialog.scan_files
    tree, checked_paths, start_time, end_time, selected_files, plot_btn, scanned,
    \* PSDCalculator
    constructed, calc, outcome, ops, noise_file,
    \* PSDProcessingWorker
    file_list, settings, bpc, bi, disk, bsignals, blog,
    \* PSDPDFDialog and the workers it starts
    dlg, workers, events

aggVars == <<files, pc, gi, result_data, total_files, processed_files, signals, log>>

scanVars == <<tree, checked_paths, start_time, end_time, selected_files, plot_btn, scanned>>

calcVars == <<constructed, calc, outcome, ops, noise_file>>

batchVars == <<file_list, settings, bpc, bi, disk, bsignals, blog>>

dialogVars == <<dlg, workers, events>>

vars == <<aggVars, scanVars, calcVars, batchVars, dialogVars>>

\* The variables of the subsystems an action of one subsystem leaves alone
nonAggVars == <<scanVars, calcVars, batchVars, dialogVars>>

nonScanVars == <<aggVars, calcVars, batchVars, dialogVars>>

nonCalcVars == <<aggVars, scanVars, batchVars, dialogVars>>

nonBatchVars == <<aggVars, scanVars, calcVars, dialogVars>>

nonDialogVars == <<aggVars, scanVars, calcVars, batchVars>>

(***************************************************************************)
(* Generic helpers.                                                        *)
(***************************************************************************)
RECURSIVE SumSeq(_)
SumSeq(s) == IF s = <<>> THEN 0 ELSE Head(s) + SumSeq(Tail(s))

Range(s) == {s[i] : i \in DOMAIN s}

\* All sequences over S of length at most n.
SeqsUpTo(S, n) == UNION {[1..k -> S] : k \in 0..n}

(***************************************************************************)
(* ======================  PSD ARTIFACTS ON DISK  ======================= *)
(* A persisted artifact (.npz) as np.load sees it: whether it loads at    *)
(* all, the keys it holds, and the arrays under the keys the loading      *)
(* worker reads.  A 2-D array is a sequence of rows; psd_db_range is the  *)
(* sequence of the left edges of the dB bins.  'psd' is as long as        *)
(* 'frequencies' and 'smoothed_psd' as long as 'f_smoothed'.              *)
(***************************************************************************)
\* The Welch frequencies of the artifacts that hold the full set of keys
RawFrequencies == <<7, 8, 9>>

Npz(d, r, f) ==
    [loadable |-> TRUE,
     keys |-> {"frequencies", "psd", "f_smoothed", "smoothed_psd",
               "psd_distribution", "psd_db_range", "metadata"},
     psd_distribution |-> d, psd_db_range |-> r, f_smoothed |-> f,
     frequencies |-> RawFrequencies]

\* The dB grid every artifact of this program carries, and a foreign one.
GridA == <<-200, -199>>
GridB == <<-120, -119>>

ArtA == Npz(<< <<1, 0>>, <<0, 0>> >>, GridA, <<1, 2>>)
ArtB == Npz(<< <<0, 2>>, <<1, 1>> >>, GridA, <<1, 2>>)
\* same shape as ArtA, other dB bin edges
ArtOtherGrid == Npz(<< <<1, 1>>, <<1, 0>> >>, GridB, <<1, 2>>)
\* one frequency row only: shape (1, 2)
ArtOneRow == Npz(<< <<1, 1>> >>, GridA, <<1>>)
\* three frequency rows: shape (3, 2)
ArtThreeRows == Npz(<< <<1, 0>>, <<0, 1>>, <<1, 1>> >>, GridA, <<1, 2, 3>>)
\* loads, but holds no psd_distribution
ArtNoDist ==
    [loadable |-> TRUE, keys |-> {"frequencies", "psd"},
     psd_distribution |-> <<>>, psd_db_range |-> <<>>, f_smoothed |-> <<>>,
     frequencies |-> RawFrequencies]
\* holds psd_distribution but no psd_db_range
ArtNoRange ==
    [loadable |-> TRUE, keys |-> {"psd_distribution", "f_smoothed"},
     psd_distribution |-> << <<0, 1>>, <<0, 0>> >>, psd_db_range |-> <<>>,
     f_smoothed |-> <<1, 2>>, frequencies |-> <<>>]
\* written without the smoothed arrays: the distribution is over the two
\* Welch frequencies
ArtNoSmoothed ==
    [loadable |-> TRUE,
     keys |-> {"frequencies", "psd", "psd_distribution", "psd_db_range"},
     psd_distribution |-> << <<1, 0>>, <<0, 1>> >>, psd_db_range |-> GridA,
     f_smoothed |-> <<>>, frequencies |-> <<7, 8>>]
\* not an npz file at all: np.load raises
ArtCorrupt ==
    [loadable |-> FALSE, keys |-> {},
     psd_distribution |-> <<>>, psd_db_range |-> <<>>, f_smoothed |-> <<>>,
     frequencies |-> <<>>]

Artifacts ==
    {ArtA, ArtB, ArtOtherGrid, ArtOneRow, ArtThreeRows, ArtNoDist, ArtNoRange,
     ArtNoSmoothed, ArtCorrupt}

\* The group keys of the worker's files dictionary, in insertion order.
GroupOrder == <<"g1", "g2", "g3", "g4", "g5">>
Groups == Range(GroupOrder)

\* Bound: the number of files handed to one worker, over all its groups.
MaxFiles == 3

(***************************************************************************)
(* ==================  PSDLoadingWorker._load_pdf_data  ================== *)
(***************************************************************************)
\* np.zeros_like(psd_distribution, dtype=float)
ZerosLike(m) == [i \in 1..Len(m) |-> [j \in 1..Len(m[1]) |-> 0]]

\* The accumulator as _load_pdf_data initialises it from the first file.
InitTotal_FromFirst(psd_distribution) == psd_distribution

InitTotal(psd_distribution) == ZerosLike(psd_distribution)

Shape(m) == <<Len(m), Len(m[1])>>

\* numpy's rule for the in-place `total += d` on 2-D arrays: d is broadcast
\* to total's shape, which needs every axis of d to match or to be 1.
CanAdd(total, d) ==
    /\ Len(d) = Len(total) \/ Len(d) = 1
    /\ Len(d[1]) = Len(total[1]) \/ Len(d[1]) = 1

AddInto(total, d) ==
    [i \in 1..Len(total) |->
        [j \in 1..Len(total[1]) |->
            total[i][j] + d[IF Len(d) = 1 THEN 1 ELSE i]
                           [IF Len(d[1]) = 1 THEN 1 ELSE j]]]

\* The body of the try block of the summing loop succeeds for this file.
LoopBodySucceeds(total, art) ==
    /\ art.loadable
    /\ "psd_distribution" \in art.keys
    /\ CanAdd(total, art.psd_distribution)

\* The summing loop from file i on; acc holds the running total, the
\* indices of the files summed in and those skipped with a warning.
RECURSIVE SumFiles(_, _, _)
SumFiles(fs, i, acc) ==
    IF i > Len(fs) THEN acc
    ELSE IF LoopBodySucceeds(acc.total, fs[i])
         THEN SumFiles(fs, i + 1,
                       [acc EXCEPT !.total = AddInto(@, fs[i].psd_distribution),
                                   !.summed = Append(@, i)])
         ELSE SumFiles(fs, i + 1, [acc EXCEPT !.skipped = Append(@, i)])

\* total_distribution.sum(axis=1, keepdims=True)
TotalCounts(total) == [i \in 1..Len(total) |-> SumSeq(total[i])]

\* The divisor left as it was summed, zero included.
GuardCounts_NoGuard(c) == c

\* total_counts[total_counts == 0] = 1
GuardCounts(c) == IF c = 0 THEN 1 ELSE c

\* total_distribution / total_counts: every entry is the quotient
\* <<numerator, divisor>>; a divisor of 0 would make the entry NaN.
Probability(total) ==
    [i \in 1..Len(total) |->
        [j \in 1..Len(total[1]) |->
            <<total[i][j], GuardCounts(TotalCounts(total)[i])>>]]

\* The first file decides whether _load_pdf_data raises before its loop.
FirstFileRaises(first) ==
    \/ ~first.loadable
    \/ "psd_distribution" \notin first.keys
    \/ "psd_db_range" \notin first.keys

\* _load_pdf_data(files, group_data) for a non-empty file list: whether it
\* raised, and the fields it stored into group_data when it did not.
LoadPdfData(fs) ==
    IF FirstFileRaises(fs[1])
    THEN [raised |-> TRUE, psd_db_range |-> <<>>, total_distribution |-> <<>>,
          probability_distribution |-> <<>>, summed |-> <<>>, skipped |-> <<>>]
    ELSE LET acc == SumFiles(fs, 1,
                             [total |-> InitTotal(fs[1].psd_distribution),
                              summed |-> <<>>, skipped |-> <<>>])
         IN  [raised |-> FALSE,
              psd_db_range |-> fs[1].psd_db_range,
              total_distribution |-> acc.total,
              probability_distribution |-> Probability(acc.total),
              summed |-> acc.summed,
              skipped |-> acc.skipped]

(***************************************************************************)
(* =====================  PSDLoadingWorker.run  ========================== *)
(* State of one worker started for plot type "PDF".                        *)
(*   files          self.files: group key -> list of artifacts             *)
(*   pc             "start" before run, "loop" inside the group loop,      *)
(*                  "done" after run has returned                          *)
(*   gi             position of the group loop in the keys of files        *)
(*   result_data    result_data['groups']: group key -> group_data         *)
(*   total_files, processed_files   the progress counters                  *)
(*   signals        the Qt signals emitted so far, in order (progress      *)
(*                  carries processed_files and total_files)               *)
(*   log            the logger records written so far, in order            *)
(***************************************************************************)
\* The keys of a dictionary over Groups, in insertion order.
Keys(d) == SelectSeq(GroupOrder, LAMBDA g : g \in DOMAIN d)

\* The empty dictionary.
EmptyDict == [g \in {} |-> <<>>]

\* sum(len(files) for files in self.files.values())
CountFiles(d) == SumSeq([i \in 1..Len(Keys(d)) |-> Len(d[Keys(d)[i]])])

\* The dictionaries a worker can be constructed with.
FileDicts ==
    {EmptyDict}
    \cup UNION {{(g :> l) : l \in [1..n -> Artifacts]} :
                   g \in {"g1", "g2"}, n \in 0..MaxFiles}
    \cup UNION {{("g1" :> l1) @@ ("g2" :> l2) :
                   l1 \in [1..n[1] -> Artifacts], l2 \in [1..n[2] -> Artifacts]} :
                 n \in {m \in (0..MaxFiles) \X (0..MaxFiles) : m[1] + m[2] <= MaxFiles}}

AggStart ==
    /\ files \in FileDicts
    /\ pc = "start"
    /\ gi = 1
    /\ result_data = EmptyDict
    /\ total_files = 0
    /\ processed_files = 0
    /\ signals = <<>>
    /\ log = <<>>

\* run, lines 45-53: nothing to process.
RunNoFiles ==
    /\ pc = "start"
    /\ DOMAIN files = {}
    /\ signals' = Append(signals, "error")
    /\ pc' = "done"
    /\ UNCHANGED <<files, gi, result_data, total_files, processed_files, log, nonAggVars>>

\* run, lines 55-57: the counters before the group loop.
RunStart ==
    /\ pc = "start"
    /\ DOMAIN files # {}
    /\ total_files' = CountFiles(files)
    /\ processed_files' = 0
    /\ gi' = 1
    /\ pc' = "loop"
    /\ UNCHANGED <<files, result_data, signals, log, nonAggVars>>

\* smoothed_frequencies as lines 79-82 take it from the first file: its
\* 'f_smoothed', else its 'frequencies', else None (the empty sequence).
FirstSmoothed(first) ==
    IF "f_smoothed" \in first.keys THEN first.f_smoothed
    ELSE IF "frequencies" \in first.keys THEN first.frequencies
    ELSE <<>>

\* The group_data stored for a group whose load did not raise.
GroupData(g, fs, r) ==
    [group_name |-> g,
     smoothed_frequencies |-> FirstSmoothed(fs[1]),
     psd_db_range |-> r.psd_db_range,
     total_distribution |-> r.total_distribution,
     probability_distribution |-> r.probability_distribution,
     summed |-> r.summed]

\* The warnings of the summing loop, one per skipped file.
Warnings(g, skipped) ==
    [k \in 1..Len(skipped) |-> [level |-> "warning", group |-> g, file |-> skipped[k]]]

\* run, lines 60-62: a group with no files is passed over.
RunEmptyGroup ==
    /\ pc = "loop"
    /\ gi <= Len(Keys(files))
    /\ files[Keys(files)[gi]] = <<>>
    /\ gi' = gi + 1
    /\ UNCHANGED <<files, pc, result_data, total_files, processed_files, signals, log, nonAggVars>>

\* A loop whose failing group takes the groups loaded before it along.
RunGroup_FailureDropsAll ==
    /\ pc = "loop"
    /\ gi <= Len(Keys(files))
    /\ files[Keys(files)[gi]] # <<>>
    /\ LET g  == Keys(files)[gi]
           fs == files[g]
           r  == LoadPdfData(fs)
       IN  /\ IF r.raised
              THEN /\ result_data' = EmptyDict
                   /\ log' = Append(log, [level |-> "error", group |-> g, file |-> 1])
              ELSE /\ result_data' = (g :> GroupData(g, fs, r)) @@ result_data
                   /\ log' = log \o Warnings(g, r.skipped)
           /\ processed_files' = processed_files + Len(fs)
           /\ signals' = Append(signals, "progress")
    /\ gi' = gi + 1
    /\ UNCHANGED <<files, pc, total_files, nonAggVars>>

\* run, lines 64-100: one group of the loop, with its try/except.
RunGroup ==
    /\ pc = "loop"
    /\ gi <= Len(Keys(files))
    /\ files[Keys(files)[gi]] # <<>>
    /\ LET g  == Keys(files)[gi]
           fs == files[g]
           r  == LoadPdfData(fs)
       IN  /\ IF r.raised
              THEN /\ result_data' = result_data
                   /\ log' = Append(log, [level |-> "error", group |-> g, file |-> 1])
              ELSE /\ result_data' = (g :> GroupData(g, fs, r)) @@ result_data
                   /\ log' = log \o Warnings(g, r.skipped)
           /\ processed_files' = processed_files + Len(fs)
           /\ signals' = Append(signals, "progress")
    /\ gi' = gi + 1
    /\ UNCHANGED <<files, pc, total_files, nonAggVars>>

\* run, lines 102-109: the results are emitted, then finished.
RunEmit ==
    /\ pc = "loop"
    /\ gi > Len(Keys(files))
    /\ signals' = signals \o <<"data_ready", "finished">>
    /\ pc' = "done"
    /\ UNCHANGED <<files, gi, result_data, total_files, processed_files, log, nonAggVars>>

AggNext == RunNoFiles \/ RunStart \/ RunEmptyGroup \/ RunGroup \/ RunEmit


(***************************************************************************)
(* ==================  FILE NAMES AND THEIR TIMESTAMPS  ================== *)
(* A string is a sequence of one-character strings.                        *)
(***************************************************************************)
\* The characters of the model are the one-character ASCII strings and
\* "U+0660" .. "U+0669", which stand for the ten ARABIC-INDIC DIGITs.  The
\* \d of a str pattern and int() take the decimal digits of every script.
DigitChars == <<"0", "1", "2", "3", "4", "5", "6", "7", "8", "9">>

ArabicIndicDigits ==
    <<"U+0660", "U+0661", "U+0662", "U+0663", "U+0664",
      "U+0665", "U+0666", "U+0667", "U+0668", "U+0669">>

IsAsciiDigit(c) == \E k \in 1..10 : DigitChars[k] = c

\* \d
IsDigit(c) == \E k \in 1..10 : DigitChars[k] = c \/ ArabicIndicDigits[k] = c

\* int() of a one-digit string
DigitVal(c) == (CHOOSE k \in 1..10 : DigitChars[k] = c \/ ArabicIndicDigits[k] = c) - 1

\* str.endswith
EndsWith(s, suffix) ==
    /\ Len(s) >= Len(suffix)
    /\ SubSeq(s, Len(s) - Len(suffix) + 1, Len(s)) = suffix

\* str.split(sep) for a one-character separator: the pieces between the
\* separators, empty pieces kept; cur is the piece being read.
RECURSIVE SplitFrom(_, _, _, _)
SplitFrom(s, sep, i, cur) ==
    IF i > Len(s) THEN <<cur>>
    ELSE IF s[i] = sep THEN <<cur>> \o SplitFrom(s, sep, i + 1, <<>>)
         ELSE SplitFrom(s, sep, i + 1, Append(cur, s[i]))

Split(s, sep) == SplitFrom(s, sep, 1, <<>>)

\* The regular expression _strptime builds for '%Y%m%d%H%M%S', one group
\* per directive, each a list of alternatives tried in order:
\*   Y \d\d\d\d     m 1[0-2]|0[1-9]|[1-9]     d 3[0-1]|[1-2]\d|0[1-9]|[1-9]| [1-9]
\*   H 2[0-3]|[0-1]\d|\d     M [0-5]\d|\d     S 6[0-1]|[0-5]\d|\d
\* An alternative is a sequence of character classes: a range [lo-hi] of
\* ASCII digits, \d, or the blank.
Rng(lo, hi) == [kind |-> "range", lo |-> lo, hi |-> hi]
AnyDigit == [kind |-> "digit", lo |-> 0, hi |-> 9]
Blank == [kind |-> "blank", lo |-> 0, hi |-> 0]

ClassMatches(c, cls) ==
    IF cls.kind = "range" THEN IsAsciiDigit(c) /\ DigitVal(c) >= cls.lo /\ DigitVal(c) <= cls.hi
    ELSE IF cls.kind = "digit" THEN IsDigit(c)
    ELSE c = " "

FieldPatterns(f) ==
    CASE f = 1 -> << <<AnyDigit, AnyDigit, AnyDigit, AnyDigit>> >>
      [] f = 2 -> << <<Rng(1, 1), Rng(0, 2)>>, <<Rng(0, 0), Rng(1, 9)>>, <<Rng(1, 9)>> >>
      [] f = 3 -> << <<Rng(3, 3), Rng(0, 1)>>, <<Rng(1, 2), AnyDigit>>,
                     <<Rng(0, 0), Rng(1, 9)>>, <<Rng(1, 9)>>, <<Blank, Rng(1, 9)>> >>
      [] f = 4 -> << <<Rng(2, 2), Rng(0, 3)>>, <<Rng(0, 1), AnyDigit>>, <<AnyDigit>> >>
      [] f = 5 -> << <<Rng(0, 5), AnyDigit>>, <<AnyDigit>> >>
      [] f = 6 -> << <<Rng(6, 6), Rng(0, 1)>>, <<Rng(0, 5), AnyDigit>>, <<AnyDigit>> >>

AltMatches(s, pos, alt) ==
    /\ pos + Len(alt) - 1 <= Len(s)
    /\ \A i \in DOMAIN alt : ClassMatches(s[pos + i - 1], alt[i])

\* int() of the text an alternative matched: the blank of ' [1-9]' is
\* stripped
RECURSIVE MatchedValue(_, _, _, _)
MatchedValue(s, pos, n, acc) ==
    IF n = 0 THEN acc
    ELSE MatchedValue(s, pos + 1, n - 1,
                      IF s[pos] = " " THEN acc ELSE 10 * acc + DigitVal(s[pos]))

\* The alternatives of directive f that match s at pos, in the order the
\* regular expression tries them, each with its width and value.
FieldAlts(s, pos, f) ==
    LET pats == FieldPatterns(f)
        hits == SelectSeq(pats, LAMBDA alt : AltMatches(s, pos, alt))
    IN  [i \in DOMAIN hits |->
            [width |-> Len(hits[i]), value |-> MatchedValue(s, pos, Len(hits[i]), 0)]]

\* format_regex.match(data_string): the first match of the six directives
\* from pos on, found by backtracking over the alternatives in order.
RECURSIVE MatchFields(_, _, _), TryAlts(_, _, _, _)
MatchFields(s, pos, f) ==
    IF f > 6 THEN [ok |-> TRUE, values |-> <<>>, end |-> pos - 1]
    ELSE TryAlts(s, pos, f, FieldAlts(s, pos, f))

TryAlts(s, pos, f, alts) ==
    IF alts = <<>> THEN [ok |-> FALSE, values |-> <<>>, end |-> 0]
    ELSE LET rest == MatchFields(s, pos + Head(alts).width, f + 1) IN
         IF rest.ok
         THEN [rest EXCEPT !.values = <<Head(alts).value>> \o @]
         ELSE TryAlts(s, pos, f, Tail(alts))

IsLeap(y) == (y % 4 = 0) /\ ((y % 100 # 0) \/ (y % 400 = 0))

DaysInMonth(y, m) ==
    IF m = 2 THEN (IF IsLeap(y) THEN 29 ELSE 28)
    ELSE IF m \in {4, 6, 9, 11} THEN 30 ELSE 31

\* The checks of the datetime constructor on the matched values.
ValidDateTime(v) ==
    /\ v[1] >= 1
    /\ v[3] <= DaysInMonth(v[1], v[2])
    /\ v[6] <= 59

\* datetime.strptime(s, '%Y%m%d%H%M%S'): ok is FALSE where it raises
\* ValueError (no match, unconverted data, or values no datetime takes);
\* dt is <<year, month, day, hour, minute, second>>.
Strptime(s) ==
    LET m == MatchFields(s, 1, 1) IN
    IF m.ok /\ m.end = Len(s) /\ ValidDateTime(m.values)
    THEN [ok |-> TRUE, dt |-> m.values]
    ELSE [ok |-> FALSE, dt |-> <<>>]

\* a <= b on datetimes
RECURSIVE DtLeqFrom(_, _, _)
DtLeqFrom(a, b, i) ==
    IF i > Len(a) THEN TRUE
    ELSE IF a[i] < b[i] THEN TRUE
    ELSE IF a[i] > b[i] THEN FALSE
    ELSE DtLeqFrom(a, b, i + 1)

DtLeq(a, b) == DtLeqFrom(a, b, 1)

(***************************************************************************)
(* ====================  PSDPDFDialog.scan_files  ======================== *)
(***************************************************************************)
\* utils/constants.py: PSD_FOLDER_NAME = "PSD"
PSD_FOLDER_NAME == "PSD"

\* utils/constants.py: PSD_FILE_SUFFIX = "_psd.npz"
PSD_FILE_SUFFIX == <<"_", "p", "s", "d", ".", "n", "p", "z">>

\* "S.Z.20240101000000_psd.npz": timestamp 2024-01-01 00:00:00
NameT1 ==
    <<"S", ".", "Z", ".", "2", "0", "2", "4", "0", "1", "0", "1", "0", "0", "0", "0", "0", "0", "_", "p", "s", "d", ".", "n", "p", "z">>
\* "S.Z.20240101120000_psd.npz": timestamp 2024-01-01 12:00:00
NameMid ==
    <<"S", ".", "Z", ".", "2", "0", "2", "4", "0", "1", "0", "1", "1", "2", "0", "0", "0", "0", "_", "p", "s", "d", ".", "n", "p", "z">>
\* "S.Z.20240102000000_psd.npz": timestamp 2024-01-02 00:00:00
NameT2 ==
    <<"S", ".", "Z", ".", "2", "0", "2", "4", "0", "1", "0", "2", "0", "0", "0", "0", "0", "0", "_", "p", "s", "d", ".", "n", "p", "z">>
\* "S.Z.20240102000001_psd.npz": one second after 2024-01-02 00:00:00
NameAfter ==
    <<"S", ".", "Z", ".", "2", "0", "2", "4", "0", "1", "0", "2", "0", "0", "0", "0", "0", "1", "_", "p", "s", "d", ".", "n", "p", "z">>
\* "S.Z.2024010112000_1_psd.npz": thirteen digits, which strptime reads as 2024-01-01 12:00:00
NameShort ==
    <<"S", ".", "Z", ".", "2", "0", "2", "4", "0", "1", "0", "1", "1", "2", "0", "0", "0", "_", "1", "_", "p", "s", "d", ".", "n", "p", "z">>
\* "S.Z.2024010112000\u0660_psd.npz": the last digit of the seconds is an
\* ARABIC-INDIC DIGIT ZERO, and strptime reads 2024-01-01 12:00:00
NameArabic ==
    <<"S", ".", "Z", ".", "2", "0", "2", "4", "0", "1", "0", "1", "1", "2", "0", "0", "0", "U+0660", "_", "p", "s", "d", ".", "n", "p", "z">>
\* "S.Z.20240230000000_psd.npz": February 30th: no timestamp
NameBadDay ==
    <<"S", ".", "Z", ".", "2", "0", "2", "4", "0", "2", "3", "0", "0", "0", "0", "0", "0", "0", "_", "p", "s", "d", ".", "n", "p", "z">>
\* "N.S.Z.20240101120000_psd.npz": the third part is not the timestamp
NameFourParts ==
    <<"N", ".", "S", ".", "Z", ".", "2", "0", "2", "4", "0", "1", "0", "1", "1", "2", "0", "0", "0", "0", "_", "p", "s", "d", ".", "n", "p", "z">>
\* "S.Z.20240101120000.npz": no PSD suffix: not a PSD artifact
NameNotPsd ==
    <<"S", ".", "Z", ".", "2", "0", "2", "4", "0", "1", "0", "1", "1", "2", "0", "0", "0", "0", ".", "n", "p", "z">>

\* What os.listdir can return in a scanned directory: files, and one
\* sub-directory named like an artifact.
File(name) == [name |-> name, isdir |-> FALSE]

DirEntries ==
    {File(NameT1), File(NameMid), File(NameT2), File(NameAfter), File(NameShort),
     File(NameArabic), File(NameBadDay), File(NameFourParts), File(NameNotPsd),
     [name |-> NameMid, isdir |-> TRUE]}

\* The values the two QDateTimeEdit widgets take.
Time1 == <<2024, 1, 1, 0, 0, 0>>
Time2 == <<2024, 1, 2, 0, 0, 0>>
Times == {Time1, Time2}

\* Bound: the number of entries in the directories of the first path.
MaxListing == 2

\* The window test with the end of the window left out.
InWindow_EndExclusive(dt, start, end) == DtLeq(start, dt) /\ DtLeq(dt, end) /\ dt # end

\* scan_files, line 1508: start_time <= dt <= end_time
InWindow(dt, start, end) == DtLeq(start, dt) /\ DtLeq(dt, end)

\* scan_files, lines 1495-1515: the test one directory entry goes through.
ScanSelects(entry, start, end) ==
    /\ ~entry.isdir
    /\ EndsWith(entry.name, PSD_FILE_SUFFIX)
    /\ LET parts == Split(entry.name, ".") IN
       /\ Len(parts) >= 3
       /\ LET raw    == parts[3]
              dt_str == IF "_" \in Range(raw) THEN Split(raw, "_")[1] ELSE raw
              t      == Strptime(dt_str)
          IN  t.ok /\ InWindow(t.dt, start, end)

\* _extract_file_time, lines 313-325: the time of a file name, ok FALSE
\* where it returns None.
ExtractFileTime(name) ==
    LET parts == Split(name, ".") IN
    IF Len(parts) >= 3 THEN Strptime(Split(parts[3], "_")[1])
    ELSE [ok |-> FALSE, dt |-> <<>>]

\* str(check_dir / file)
FilePath(dir, entry) == [dir |-> dir, name |-> entry.name]

\* The files one directory contributes, in listing order.
RECURSIVE ScanDir(_, _, _, _, _)
ScanDir(dir, listing, i, start, end) ==
    IF i > Len(listing) THEN <<>>
    ELSE (IF ScanSelects(listing[i], start, end)
          THEN <<FilePath(dir, listing[i])>> ELSE <<>>)
         \o ScanDir(dir, listing, i + 1, start, end)

\* directories_to_check of a path: the directory and its PSD sub-directory
\* when there is one.
DirsToCheck(node) ==
    <<[dir |-> <<node.path>>, listing |-> node.listing]>>
    \o (IF node.psd_exists
        THEN <<[dir |-> <<node.path, PSD_FOLDER_NAME>>, listing |-> node.psd_listing]>>
        ELSE <<>>)

ScanPath(node, start, end) ==
    LET dirs == DirsToCheck(node) IN
    ScanDir(dirs[1].dir, dirs[1].listing, 1, start, end)
    \o (IF Len(dirs) > 1 THEN ScanDir(dirs[2].dir, dirs[2].listing, 1, start, end)
        ELSE <<>>)

\* The loop over checked_paths, lines 1465-1517, then the removal of the
\* empty groups, lines 1519-1522.
ScanAll(tr, checked, start, end) ==
    LET kept == {q \in Range(checked) : tr[q].exists /\ ScanPath(tr[q], start, end) # <<>>}
    IN  [q \in kept |-> ScanPath(tr[q], start, end)]

(***************************************************************************)
(* State of the dialog around one scan.                                    *)
(*   tree            the output directory: path -> its directory           *)
(*   checked_paths   what _get_checked_paths returns                       *)
(*   start_time, end_time   the values of the two time widgets             *)
(*   selected_files  self.selected_files: group key -> list of file paths  *)
(*   plot_btn        whether the Plot button is enabled                    *)
(*   scanned         whether scan_files has run                            *)
(***************************************************************************)
\* The listings of a directory and its PSD sub-directory: distinct entries,
\* at most MaxListing of them over both.
Distinct(l) == \A i, j \in DOMAIN l : l[i].name = l[j].name => i = j

Listings ==
    UNION {{<<a, b>> : a \in {l \in [1..n[1] -> DirEntries] : Distinct(l)},
                       b \in {l \in [1..n[2] -> DirEntries] : Distinct(l)}} :
           n \in {m \in (0..MaxListing) \X (0..MaxListing) : m[1] + m[2] <= MaxListing}}

Trees ==
    {("p1" :> [path |-> "p1", exists |-> TRUE, listing |-> l[1],
               psd_exists |-> x, psd_listing |-> l[2]])
     @@ ("p2" :> [path |-> "p2", exists |-> e, listing |-> <<File(NameMid)>>,
                  psd_exists |-> FALSE, psd_listing |-> <<>>]) :
     l \in Listings, x \in BOOLEAN, e \in BOOLEAN}

ScanStart ==
    /\ tree \in {t \in Trees : t["p1"].psd_listing # <<>> => t["p1"].psd_exists}
    /\ checked_paths \in {<<>>, <<"p1">>, <<"p1", "p2">>}
    /\ start_time \in Times
    /\ end_time \in Times
    /\ selected_files = EmptyDict
    /\ plot_btn = FALSE
    /\ scanned = FALSE

\* scan_files with nothing checked, lines 1434-1461: the warning, and return.
ScanNothingChecked ==
    /\ checked_paths = <<>>
    /\ selected_files' = EmptyDict
    /\ scanned' = TRUE
    /\ UNCHANGED <<tree, checked_paths, start_time, end_time, plot_btn, nonScanVars>>

\* scan_files, lines 1434-1560.
ScanFiles ==
    /\ checked_paths # <<>>
    /\ selected_files' = ScanAll(tree, checked_paths, start_time, end_time)
    /\ plot_btn' = (DOMAIN selected_files' # {})
    /\ scanned' = TRUE
    /\ UNCHANGED <<tree, checked_paths, start_time, end_time, nonScanVars>>

ScanNext == ScanNothingChecked \/ ScanFiles


(***************************************************************************)
(* ==========================  PSDCalculator  ============================ *)
(* Numbers.  A frequency or a configuration value that is a float in the   *)
(* source is a quotient <<n, d>> with d > 0; the overlap fraction is held  *)
(* in hundredths; a dB value is an integer number of thousandths of a dB.  *)
(* A power value is kept symbolic: the Welch bin it came from, the level   *)
(* scipy estimated there, and whether the response was divided out.        *)
(***************************************************************************)
RatLeq(a, b) == a[1] * b[2] <= b[1] * a[2]

RatLess(a, b) == a[1] * b[2] < b[1] * a[2]

\* int(x) of the quotient n / d, d > 0: truncation towards zero
IntTrunc(n, d) == IF n >= 0 THEN n \div d ELSE -((-n) \div d)

Min(a, b) == IF a <= b THEN a ELSE b

RECURSIVE Pow2(_)
Pow2(n) == IF n = 0 THEN 1 ELSE 2 * Pow2(n - 1)

Pow8(k) == (k * k) * (k * k) * ((k * k) * (k * k))

\* -1, 0 or 1 as 2^e * x is below, equal to or above y (x, y >= 1), without
\* leaving the 32-bit integers.
CmpPow2(e, x, y) ==
    IF e >= 0
    THEN IF e > 30 THEN 1
         ELSE LET q == y \div Pow2(e) IN
              IF x > q THEN 1
              ELSE IF x = q /\ y % Pow2(e) = 0 THEN 0 ELSE -1
    ELSE LET q == x \div Pow2(-e) IN
         IF y > q THEN -1
         ELSE IF y = q /\ x % Pow2(-e) = 0 THEN 0 ELSE 1

\* class attribute PSD_DB_RANGE = np.arange(-200, -49): the edges -200..-50
PSD_DB_START == -200
PSD_DB_STOP == -49
PSD_DB_RANGE == [i \in 1..(PSD_DB_STOP - PSD_DB_START) |-> PSD_DB_START + i - 1]

\* The waveform segments handed to calculate_psd.  A segment is known by
\* whether it is a numpy array, its sample count and the name of its
\* samples.  "x6" is np.array([4, -9, 15, 2, -6, 11]) * 1e-6 and "x20" is
\* np.array([12, -7, 25, 3, -18, 30, 9, -11, 22, 41, -5, 17, 35, -2, 28, 46,
\* 13, 39, 8, 52]) * 1e-6; WelchTable holds what scipy makes of them.
Segment(name, n) == [is_ndarray |-> TRUE, size |-> n, name |-> name]

DataList == [is_ndarray |-> FALSE, size |-> 3, name |-> "list"]
DataEmpty == Segment("empty", 0)
DataShort == Segment("x6", 6)
DataLong == Segment("x20", 20)

Segments == {DataList, DataEmpty, DataShort, DataLong}

\* __init__, lines 36-71.  assigned is the set of result fields that are
\* not None.
NewCalculator(sr, sens, it, period) ==
    [sample_rate |-> sr, sensitivity |-> sens, instrument_type |-> it,
     natural_period |-> period,
     filter_enabled |-> FALSE, filter_type |-> "High Pass",
     cutoff_freq |-> <<1, 10>>, low_freq |-> <<1, 10>>, high_freq |-> <<100, 1>>,
     window_size |-> 1000, overlap |-> 80, window_type |-> "hann",
     response_removal_enabled |-> FALSE,
     psd_freq_min |-> <<1, 1000>>, psd_freq_max |-> <<100, 1>>,
     assigned |-> {},
     frequencies |-> <<>>, psd |-> <<>>, psd_v |-> <<>>,
     smoothed_frequencies |-> <<>>, smoothed_psd |-> <<>>, psd_distribution |-> <<>>]

\* The result fields of an instance, with which of them are set
ResultFields(c) ==
    [assigned |-> c.assigned, frequencies |-> c.frequencies, psd |-> c.psd,
     psd_v |-> c.psd_v, smoothed_frequencies |-> c.smoothed_frequencies,
     smoothed_psd |-> c.smoothed_psd, psd_distribution |-> c.psd_distribution]

\* filter_type setter, line 284
ValidFilterType(value) == value \in {"High Pass", "Band Pass"}

\* window_type setter, lines 334-335
ValidWindowType(value) ==
    value \in {"hann", "hamming", "blackman", "bartlett", "flattop", "boxcar"}

\* _apply_highpass_filter / _apply_bandpass_filter, lines 201-214: butter
\* takes critical frequencies strictly between 0 and 1 (of Nyquist), in
\* increasing order, and filtfilt needs more samples than its padding of
\* 3 * (number of coefficients): 18 for the high pass, 33 for the band pass.
Nyquist(c) == <<c.sample_rate, 2>>

FilterRaises(c, data) ==
    IF c.filter_type = "High Pass"
    THEN \/ ~(c.cutoff_freq[1] > 0 /\ RatLess(c.cutoff_freq, Nyquist(c)))
         \/ data.size <= 18
    ELSE \/ ~(c.low_freq[1] > 0 /\ RatLess(c.low_freq, c.high_freq)
              /\ RatLess(c.high_freq, Nyquist(c)))
         \/ data.size <= 33

\* lines 108-112 and 201-214: the filter the data went through, with the
\* edge it was designed for; <<"none", 0, 1>> when the filter is disabled.
\* No segment of the model is long enough for the band pass (FilterRaises).
FilterRan(c) ==
    IF ~c.filter_enabled THEN <<"none", 0, 1>>
    ELSE IF c.filter_type = "High Pass"
    THEN <<"high", c.cutoff_freq[1], c.cutoff_freq[2]>>
    ELSE <<"band", c.low_freq, c.high_freq>>

\* lines 115-116
Nperseg(c, data) == Min(IntTrunc(c.window_size * c.sample_rate, 1), data.size)

\* An overlap length rounded up instead of truncated.
Noverlap_RoundedUp(c, data) ==
    IntTrunc(c.overlap * Nperseg(c, data) + 99, 100)

\* <<overlap in hundredths, nperseg>>, up to an overlap of 1.99 and a
\* segment of 200 samples, where the product is a whole number and the
\* double the source computes comes out below it
OverlapProductBelow ==
    { <<29, 100>>, <<29, 200>>, <<35, 180>>, <<57, 100>>, <<57, 200>>, <<58, 50>>,
      <<58, 100>>, <<58, 200>>, <<70, 90>>, <<70, 170>>, <<70, 180>>, <<82, 150>>,
      <<113, 100>>, <<113, 200>>, <<114, 50>>, <<114, 100>>, <<114, 150>>,
      <<114, 200>>, <<115, 100>>, <<115, 180>>, <<115, 200>>, <<116, 25>>,
      <<116, 50>>, <<116, 100>>, <<116, 200>>, <<138, 150>>, <<140, 45>>,
      <<140, 85>>, <<140, 90>>, <<140, 165>>, <<140, 170>>, <<140, 175>>,
      <<140, 180>>, <<164, 75>>, <<164, 150>> }

\* int(x) of the double product of the overlap h / 100 (h >= 0) and n
IntOfProduct(h, n) ==
    IntTrunc(h * n, 100) - (IF <<h, n>> \in OverlapProductBelow THEN 1 ELSE 0)

\* line 116: int(self._overlap * nperseg)
Noverlap(c, data) ==
    IF c.overlap >= 0 THEN IntOfProduct(c.overlap, Nperseg(c, data))
    ELSE -IntOfProduct(-c.overlap, Nperseg(c, data))

\* scipy's welch refuses a segment length below 1 and an overlap that is
\* not shorter than the segment.
WelchRaises(nperseg, noverlap) == nperseg < 1 \/ noverlap >= nperseg

\* welch has scipy's get_window build the window from its name, and that
\* takes no name of a window that needs a parameter
WindowRaises(window) == window = "kaiser"

\* The frequency of Welch bin k: k * fs / nperseg
BinFreq(c, nperseg, k) == <<k * c.sample_rate, nperseg>>

\* welch returns the frequency of bin k as the double k * (1.0 / (nperseg *
\* (1 / fs))).  <<nperseg, k>>, at sample rate 4 and up to 40 samples a
\* segment, where that double is above the double nearest to k * fs /
\* nperseg, and where it is below it
BinFreqAbove ==
    { <<10, 3>>, <<11, 5>>, <<20, 3>>, <<20, 6>>, <<20, 7>>, <<22, 5>>, <<22, 10>>,
      <<26, 7>>, <<26, 11>>, <<33, 11>>, <<33, 15>>, <<40, 3>>, <<40, 6>>, <<40, 7>>,
      <<40, 12>>, <<40, 14>>, <<40, 17>>, <<40, 19>> }

BinFreqBelow ==
    { <<12, 5>>, <<14, 5>>, <<17, 3>>, <<17, 6>>, <<18, 7>>, <<23, 9>>, <<24, 5>>,
      <<24, 7>>, <<24, 10>>, <<28, 5>>, <<28, 9>>, <<28, 10>>, <<28, 13>>, <<29, 7>>,
      <<29, 14>>, <<31, 9>>, <<31, 13>>, <<34, 3>>, <<34, 6>>, <<34, 12>>, <<35, 7>>,
      <<35, 14>>, <<36, 7>>, <<36, 11>>, <<36, 14>>, <<36, 15>>, <<38, 13>>,
      <<38, 17>>, <<39, 9>>, <<39, 15>>, <<39, 18>> }

\* frequencies >= psd_freq_min and frequencies <= psd_freq_max on the
\* doubles: a limit n / d is the double nearest to it, so the two differ
\* from the quotients only where the quotients are equal
AtLeastMin(c, nperseg, k) ==
    IF BinFreq(c, nperseg, k)[1] * c.psd_freq_min[2]
         = c.psd_freq_min[1] * BinFreq(c, nperseg, k)[2]
    THEN <<nperseg, k>> \notin BinFreqBelow
    ELSE RatLess(c.psd_freq_min, BinFreq(c, nperseg, k))

AtMostMax(c, nperseg, k) ==
    IF BinFreq(c, nperseg, k)[1] * c.psd_freq_max[2]
         = c.psd_freq_max[1] * BinFreq(c, nperseg, k)[2]
    THEN <<nperseg, k>> \notin BinFreqAbove
    ELSE RatLess(BinFreq(c, nperseg, k), c.psd_freq_max)

\* lines 125-127: the bins the clip retains, ascending
RetainedBins(c, nperseg) ==
    SelectSeq([i \in 1..(nperseg \div 2 + 1) |-> i - 1],
              LAMBDA k : AtLeastMin(c, nperseg, k) /\ AtMostMax(c, nperseg, k))

\* For each frequency f = n / d of the model, in thousandths of a dB:
\* 10 * log10((2 * pi * f) ** 2), and 10 * log10(|H(2 * pi * f)| ** 2) for
\* the transfer function of _remove_response with natural period 10 s and
\* damping ratio 0.707.   <<n, d, omega, response>>
FreqTable ==
    { <<1, 5, 1984, -263>>, <<2, 5, 8005, -17>>, <<1, 2, 9943, -7>>,
      <<3, 5, 11527, -3>>, <<2, 3, 12442, -2>>, <<4, 5, 14025, -1>>,
      <<1, 1, 15964, 0>>, <<6, 5, 17547, 0>>, <<4, 3, 18462, 0>>,
      <<7, 5, 18886, 0>>, <<3, 2, 19485, 0>>, <<8, 5, 20046, 0>>,
      <<9, 5, 21069, 0>>, <<2, 1, 21984, 0>> }

FreqRow(f) == CHOOSE t \in FreqTable : f[1] * t[2] = f[2] * t[1]

\* lines 137-138
OmegaDb(f) == FreqRow(f)[3]

\* lines 216-224
ResponseDb(f) == FreqRow(f)[4]

\* A branch taken for every instrument type but 0.
InstrumentBranch_ElsePass(it) == IF it = 0 THEN "omega" ELSE "pass"

\* A branch that converts both known instrument types.
InstrumentBranch_OmegaForBoth(it) == IF it \in {0, 1} THEN "omega" ELSE "raise"

\* lines 136-143
InstrumentBranch(it) ==
    IF it = 0 THEN "omega" ELSE IF it = 1 THEN "pass" ELSE "raise"

\* The samples on their way to the Welch estimate: whose they are (name),
\* whether their mean and linear trend were taken out, gain, the level
\* (thousandths of a dB) by which they were scaled, and filter, the filter
\* they went through.  Samples(data) is the array as it is handed in.
Samples(data) ==
    [name |-> data.name, size |-> data.size, detrended |-> FALSE, gain |-> 0,
     filter |-> <<"none", 0, 1>>]

\* Samples that keep their mean and trend.
Detrend_NotApplied(x) == x

\* line 102: detrend(data - np.mean(data)) takes the mean and the linear
\* trend out of the samples
Detrend(x) == [x EXCEPT !.detrended = TRUE]

\* 20 * log10(sensitivity) in thousandths of a dB, for the sensitivities of
\* SensitivityValues
SensitivityDb(sens) == IF sens = 10 THEN 20000 ELSE 0

\* line 105: data / self.sensitivity
DivideBySensitivity(x, sens) == [x EXCEPT !.gain = @ - SensitivityDb(sens)]

\* lines 108-112: the filter that is enabled runs on the samples
ApplyFilter(c, x) == [x EXCEPT !.filter = FilterRan(c)]

\* lines 102-112: the samples welch is called with
Prepared(c, data) ==
    ApplyFilter(c, DivideBySensitivity(Detrend(Samples(data)), c.sensitivity))

\* welch(x, fs=4, window=window, nperseg=nperseg, noverlap=noverlap) for
\* the samples x of the model, as scipy computes it: 10 * log10 of the
\* estimate in the bins k = 1 .. nperseg // 2, rounded to thousandths of a
\* dB.  The key is <<name of the samples, detrended (line 102), the filter
\* they went through (butter of order 5 and filtfilt, lines 201-214),
\* window, nperseg, noverlap>>.  An estimate of one segment (nperseg the
\* sample count) does not depend on the overlap; bin 0 is left out, as no
\* clip of the model retains the frequency 0.
WelchTable ==
       (<<"x6", TRUE, <<"none", 0, 1>>, "hann", 4, 0>> :>
        <<-102872, -102438>>)
    @@ (<<"x6", TRUE, <<"none", 0, 1>>, "hann", 4, 3>> :>
        <<-103095, -105522>>)
    @@ (<<"x6", TRUE, <<"none", 0, 1>>, "hann", 6, 0>> :>
        <<-105525, -101224, -116975>>)
    @@ (<<"x6", TRUE, <<"none", 0, 1>>, "hann", 6, 4>> :>
        <<-105525, -101224, -116975>>)
    @@ (<<"x6", TRUE, <<"none", 0, 1>>, "hann", 6, 5>> :>
        <<-105525, -101224, -116975>>)
    @@ (<<"x6", TRUE, <<"none", 0, 1>>, "hamming", 4, 0>> :>
        <<-103144, -102349>>)
    @@ (<<"x6", TRUE, <<"none", 0, 1>>, "hamming", 4, 3>> :>
        <<-102914, -105658>>)
    @@ (<<"x6", TRUE, <<"none", 0, 1>>, "hamming", 6, 0>> :>
        <<-106142, -100920, -116093>>)
    @@ (<<"x6", TRUE, <<"none", 0, 1>>, "hamming", 6, 4>> :>
        <<-106142, -100920, -116093>>)
    @@ (<<"x6", TRUE, <<"none", 0, 1>>, "hamming", 6, 5>> :>
        <<-106142, -100920, -116093>>)
    @@ (<<"x6", FALSE, <<"none", 0, 1>>, "hann", 4, 0>> :>
        <<-102359, -102438>>)
    @@ (<<"x6", FALSE, <<"none", 0, 1>>, "hann", 4, 3>> :>
        <<-103115, -105522>>)
    @@ (<<"x6", FALSE, <<"none", 0, 1>>, "hann", 6, 0>> :>
        <<-107115, -101406, -116975>>)
    @@ (<<"x6", FALSE, <<"none", 0, 1>>, "hann", 6, 4>> :>
        <<-107115, -101406, -116975>>)
    @@ (<<"x6", FALSE, <<"none", 0, 1>>, "hann", 6, 5>> :>
        <<-107115, -101406, -116975>>)
    @@ (<<"x6", FALSE, <<"none", 0, 1>>, "hamming", 4, 0>> :>
        <<-102534, -102413>>)
    @@ (<<"x6", FALSE, <<"none", 0, 1>>, "hamming", 4, 3>> :>
        <<-102937, -105667>>)
    @@ (<<"x6", FALSE, <<"none", 0, 1>>, "hamming", 6, 0>> :>
        <<-108010, -101016, -116483>>)
    @@ (<<"x6", FALSE, <<"none", 0, 1>>, "hamming", 6, 4>> :>
        <<-108010, -101016, -116483>>)
    @@ (<<"x6", FALSE, <<"none", 0, 1>>, "hamming", 6, 5>> :>
        <<-108010, -101016, -116483>>)
    @@ (<<"x20", TRUE, <<"none", 0, 1>>, "hann", 4, 0>> :>
        <<-97724, -99550>>)
    @@ (<<"x20", TRUE, <<"none", 0, 1>>, "hann", 4, 3>> :>
        <<-97183, -99393>>)
    @@ (<<"x20", TRUE, <<"none", 0, 1>>, "hann", 8, 0>> :>
        <<-107322, -96627, -94636, -103221>>)
    @@ (<<"x20", TRUE, <<"none", 0, 1>>, "hann", 8, 6>> :>
        <<-104594, -96194, -95285, -102848>>)
    @@ (<<"x20", TRUE, <<"none", 0, 1>>, "hann", 8, 7>> :>
        <<-105311, -96064, -95243, -103600>>)
    @@ (<<"x20", TRUE, <<"none", 0, 1>>, "hann", 20, 0>> :>
        <<-117422, -111710, -103776, -104371, -99872, -91430, -92372, -101499, -108266, -107994>>)
    @@ (<<"x20", TRUE, <<"none", 0, 1>>, "hann", 20, 16>> :>
        <<-117422, -111710, -103776, -104371, -99872, -91430, -92372, -101499, -108266, -107994>>)
    @@ (<<"x20", TRUE, <<"none", 0, 1>>, "hann", 20, 19>> :>
        <<-117422, -111710, -103776, -104371, -99872, -91430, -92372, -101499, -108266, -107994>>)
    @@ (<<"x20", TRUE, <<"none", 0, 1>>, "hamming", 4, 0>> :>
        <<-97668, -99426>>)
    @@ (<<"x20", TRUE, <<"none", 0, 1>>, "hamming", 4, 3>> :>
        <<-97033, -99521>>)
    @@ (<<"x20", TRUE, <<"none", 0, 1>>, "hamming", 8, 0>> :>
        <<-106617, -96699, -94441, -104772>>)
    @@ (<<"x20", TRUE, <<"none", 0, 1>>, "hamming", 8, 6>> :>
        <<-104707, -96173, -95145, -103532>>)
    @@ (<<"x20", TRUE, <<"none", 0, 1>>, "hamming", 8, 7>> :>
        <<-105593, -96057, -95091, -104393>>)
    @@ (<<"x20", TRUE, <<"none", 0, 1>>, "hamming", 20, 0>> :>
        <<-115738, -111831, -103863, -104183, -100514, -91425, -92390, -100945, -109951, -107026>>)
    @@ (<<"x20", TRUE, <<"none", 0, 1>>, "hamming", 20, 16>> :>
        <<-115738, -111831, -103863, -104183, -100514, -91425, -92390, -100945, -109951, -107026>>)
    @@ (<<"x20", TRUE, <<"none", 0, 1>>, "hamming", 20, 19>> :>
        <<-115738, -111831, -103863, -104183, -100514, -91425, -92390, -100945, -109951, -107026>>)
    @@ (<<"x20", TRUE, <<"high", 1, 10>>, "hann", 4, 0>> :>
        <<-97661, -99551>>)
    @@ (<<"x20", TRUE, <<"high", 1, 10>>, "hann", 4, 3>> :>
        <<-97148, -99391>>)
    @@ (<<"x20", TRUE, <<"high", 1, 10>>, "hann", 8, 0>> :>
        <<-106592, -96541, -94653, -103225>>)
    @@ (<<"x20", TRUE, <<"high", 1, 10>>, "hann", 8, 6>> :>
        <<-103866, -96195, -95276, -102854>>)
    @@ (<<"x20", TRUE, <<"high", 1, 10>>, "hann", 8, 7>> :>
        <<-104722, -96052, -95243, -103601>>)
    @@ (<<"x20", TRUE, <<"high", 1, 10>>, "hann", 20, 0>> :>
        <<-102483, -105784, -104389, -104156, -99899, -91430, -92371, -101491, -108278, -107998>>)
    @@ (<<"x20", TRUE, <<"high", 1, 10>>, "hann", 20, 16>> :>
        <<-102483, -105784, -104389, -104156, -99899, -91430, -92371, -101491, -108278, -107998>>)
    @@ (<<"x20", TRUE, <<"high", 1, 10>>, "hann", 20, 19>> :>
        <<-102483, -105784, -104389, -104156, -99899, -91430, -92371, -101491, -108278, -107998>>)
    @@ (<<"x20", TRUE, <<"high", 1, 10>>, "hamming", 4, 0>> :>
        <<-97588, -99482>>)
    @@ (<<"x20", TRUE, <<"high", 1, 10>>, "hamming", 4, 3>> :>
        <<-96994, -99527>>)
    @@ (<<"x20", TRUE, <<"high", 1, 10>>, "hamming", 8, 0>> :>
        <<-105893, -96602, -94489, -104650>>)
    @@ (<<"x20", TRUE, <<"high", 1, 10>>, "hamming", 8, 6>> :>
        <<-103907, -96166, -95137, -103600>>)
    @@ (<<"x20", TRUE, <<"high", 1, 10>>, "hamming", 8, 7>> :>
        <<-104895, -96046, -95087, -104420>>)
    @@ (<<"x20", TRUE, <<"high", 1, 10>>, "hamming", 20, 0>> :>
        <<-101898, -107111, -103908, -104125, -100304, -91494, -92321, -101055, -109945, -107285>>)
    @@ (<<"x20", TRUE, <<"high", 1, 10>>, "hamming", 20, 16>> :>
        <<-101898, -107111, -103908, -104125, -100304, -91494, -92321, -101055, -109945, -107285>>)
    @@ (<<"x20", TRUE, <<"high", 1, 10>>, "hamming", 20, 19>> :>
        <<-101898, -107111, -103908, -104125, -100304, -91494, -92321, -101055, -109945, -107285>>)
    @@ (<<"x20", TRUE, <<"high", 1, 1>>, "hann", 4, 0>> :>
        <<-98521, -100501>>)
    @@ (<<"x20", TRUE, <<"high", 1, 1>>, "hann", 4, 3>> :>
        <<-97596, -99697>>)
    @@ (<<"x20", TRUE, <<"high", 1, 1>>, "hann", 8, 0>> :>
        <<-116679, -96403, -94786, -103436>>)
    @@ (<<"x20", TRUE, <<"high", 1, 1>>, "hann", 8, 6>> :>
        <<-111251, -97048, -95415, -102972>>)
    @@ (<<"x20", TRUE, <<"high", 1, 1>>, "hann", 8, 7>> :>
        <<-111190, -96926, -95461, -103626>>)
    @@ (<<"x20", TRUE, <<"high", 1, 1>>, "hann", 20, 0>> :>
        <<-123346, -145234, -133957, -118079, -99394, -92111, -92477, -101448, -108326, -108017>>)
    @@ (<<"x20", TRUE, <<"high", 1, 1>>, "hann", 20, 16>> :>
        <<-123346, -145234, -133957, -118079, -99394, -92111, -92477, -101448, -108326, -108017>>)
    @@ (<<"x20", TRUE, <<"high", 1, 1>>, "hann", 20, 19>> :>
        <<-123346, -145234, -133957, -118079, -99394, -92111, -92477, -101448, -108326, -108017>>)
    @@ (<<"x20", TRUE, <<"high", 1, 1>>, "hamming", 4, 0>> :>
        <<-98416, -100428>>)
    @@ (<<"x20", TRUE, <<"high", 1, 1>>, "hamming", 4, 3>> :>
        <<-97461, -99827>>)
    @@ (<<"x20", TRUE, <<"high", 1, 1>>, "hamming", 8, 0>> :>
        <<-119226, -96423, -94655, -104774>>)
    @@ (<<"x20", TRUE, <<"high", 1, 1>>, "hamming", 8, 6>> :>
        <<-112355, -97078, -95231, -103791>>)
    @@ (<<"x20", TRUE, <<"high", 1, 1>>, "hamming", 8, 7>> :>
        <<-112377, -96960, -95269, -104505>>)
    @@ (<<"x20", TRUE, <<"high", 1, 1>>, "hamming", 20, 0>> :>
        <<-121656, -133649, -129324, -118766, -99967, -92184, -92378, -101120, -109908, -107430>>)
    @@ (<<"x20", TRUE, <<"high", 1, 1>>, "hamming", 20, 16>> :>
        <<-121656, -133649, -129324, -118766, -99967, -92184, -92378, -101120, -109908, -107430>>)
    @@ (<<"x20", TRUE, <<"high", 1, 1>>, "hamming", 20, 19>> :>
        <<-121656, -133649, -129324, -118766, -99967, -92184, -92378, -101120, -109908, -107430>>)
    @@ (<<"x20", FALSE, <<"none", 0, 1>>, "hann", 4, 0>> :>
        <<-97789, -99550>>)
    @@ (<<"x20", FALSE, <<"none", 0, 1>>, "hann", 4, 3>> :>
        <<-97172, -99393>>)
    @@ (<<"x20", FALSE, <<"none", 0, 1>>, "hann", 8, 0>> :>
        <<-106798, -96604, -94634, -103221>>)
    @@ (<<"x20", FALSE, <<"none", 0, 1>>, "hann", 8, 6>> :>
        <<-103984, -96182, -95290, -102848>>)
    @@ (<<"x20", FALSE, <<"none", 0, 1>>, "hann", 8, 7>> :>
        <<-104244, -96048, -95245, -103600>>)
    @@ (<<"x20", FALSE, <<"none", 0, 1>>, "hann", 20, 0>> :>
        <<-99512, -121921, -103120, -104613, -99807, -91435, -92370, -101516, -108247, -107994>>)
    @@ (<<"x20", FALSE, <<"none", 0, 1>>, "hann", 20, 16>> :>
        <<-99512, -121921, -103120, -104613, -99807, -91435, -92370, -101516, -108247, -107994>>)
    @@ (<<"x20", FALSE, <<"none", 0, 1>>, "hann", 20, 19>> :>
        <<-99512, -121921, -103120, -104613, -99807, -91435, -92370, -101516, -108247, -107994>>)
    @@ (<<"x20", FALSE, <<"none", 0, 1>>, "hamming", 4, 0>> :>
        <<-97739, -99400>>)
    @@ (<<"x20", FALSE, <<"none", 0, 1>>, "hamming", 4, 3>> :>
        <<-97020, -99520>>)
    @@ (<<"x20", FALSE, <<"none", 0, 1>>, "hamming", 8, 0>> :>
        <<-106324, -96668, -94445, -104744>>)
    @@ (<<"x20", FALSE, <<"none", 0, 1>>, "hamming", 8, 6>> :>
        <<-103925, -96162, -95165, -103424>>)
    @@ (<<"x20", FALSE, <<"none", 0, 1>>, "hamming", 8, 7>> :>
        <<-104284, -96050, -95096, -104362>>)
    @@ (<<"x20", FALSE, <<"none", 0, 1>>, "hamming", 20, 0>> :>
        <<-98688, -116171, -103901, -104231, -100879, -91309, -92513, -100758, -109880, -106593>>)
    @@ (<<"x20", FALSE, <<"none", 0, 1>>, "hamming", 20, 16>> :>
        <<-98688, -116171, -103901, -104231, -100879, -91309, -92513, -100758, -109880, -106593>>)
    @@ (<<"x20", FALSE, <<"none", 0, 1>>, "hamming", 20, 19>> :>
        <<-98688, -116171, -103901, -104231, -100879, -91309, -92513, -100758, -109880, -106593>>)
    @@ (<<"x20", FALSE, <<"high", 1, 10>>, "hann", 4, 0>> :>
        <<-97656, -99551>>)
    @@ (<<"x20", FALSE, <<"high", 1, 10>>, "hann", 4, 3>> :>
        <<-97148, -99391>>)
    @@ (<<"x20", FALSE, <<"high", 1, 10>>, "hann", 8, 0>> :>
        <<-106562, -96548, -94652, -103225>>)
    @@ (<<"x20", FALSE, <<"high", 1, 10>>, "hann", 8, 6>> :>
        <<-103873, -96196, -95276, -102853>>)
    @@ (<<"x20", FALSE, <<"high", 1, 10>>, "hann", 8, 7>> :>
        <<-104734, -96054, -95242, -103601>>)
    @@ (<<"x20", FALSE, <<"high", 1, 10>>, "hann", 20, 0>> :>
        <<-102436, -105826, -104398, -104154, -99901, -91430, -92372, -101490, -108278, -107998>>)
    @@ (<<"x20", FALSE, <<"high", 1, 10>>, "hann", 20, 16>> :>
        <<-102436, -105826, -104398, -104154, -99901, -91430, -92372, -101490, -108278, -107998>>)
    @@ (<<"x20", FALSE, <<"high", 1, 10>>, "hann", 20, 19>> :>
        <<-102436, -105826, -104398, -104154, -99901, -91430, -92372, -101490, -108278, -107998>>)
    @@ (<<"x20", FALSE, <<"high", 1, 10>>, "hamming", 4, 0>> :>
        <<-97584, -99480>>)
    @@ (<<"x20", FALSE, <<"high", 1, 10>>, "hamming", 4, 3>> :>
        <<-96995, -99527>>)
    @@ (<<"x20", FALSE, <<"high", 1, 10>>, "hamming", 8, 0>> :>
        <<-105846, -96610, -94486, -104657>>)
    @@ (<<"x20", FALSE, <<"high", 1, 10>>, "hamming", 8, 6>> :>
        <<-103913, -96167, -95136, -103602>>)
    @@ (<<"x20", FALSE, <<"high", 1, 10>>, "hamming", 8, 7>> :>
        <<-104907, -96047, -95087, -104419>>)
    @@ (<<"x20", FALSE, <<"high", 1, 10>>, "hamming", 20, 0>> :>
        <<-101828, -107200, -103904, -104124, -100296, -91496, -92318, -101059, -109945, -107296>>)
    @@ (<<"x20", FALSE, <<"high", 1, 10>>, "hamming", 20, 16>> :>
        <<-101828, -107200, -103904, -104124, -100296, -91496, -92318, -101059, -109945, -107296>>)
    @@ (<<"x20", FALSE, <<"high", 1, 10>>, "hamming", 20, 19>> :>
        <<-101828, -107200, -103904, -104124, -100296, -91496, -92318, -101059, -109945, -107296>>)
    @@ (<<"x20", FALSE, <<"high", 1, 1>>, "hann", 4, 0>> :>
        <<-98521, -100501>>)
    @@ (<<"x20", FALSE, <<"high", 1, 1>>, "hann", 4, 3>> :>
        <<-97596, -99697>>)
    @@ (<<"x20", FALSE, <<"high", 1, 1>>, "hann", 8, 0>> :>
        <<-116680, -96403, -94786, -103436>>)
    @@ (<<"x20", FALSE, <<"high", 1, 1>>, "hann", 8, 6>> :>
        <<-111251, -97048, -95415, -102972>>)
    @@ (<<"x20", FALSE, <<"high", 1, 1>>, "hann", 8, 7>> :>
        <<-111190, -96926, -95461, -103626>>)
    @@ (<<"x20", FALSE, <<"high", 1, 1>>, "hann", 20, 0>> :>
        <<-123346, -145235, -133958, -118078, -99394, -92111, -92477, -101449, -108326, -108017>>)
    @@ (<<"x20", FALSE, <<"high", 1, 1>>, "hann", 20, 16>> :>
        <<-123346, -145235, -133958, -118078, -99394, -92111, -92477, -101449, -108326, -108017>>)
    @@ (<<"x20", FALSE, <<"high", 1, 1>>, "hann", 20, 19>> :>
        <<-123346, -145235, -133958, -118078, -99394, -92111, -92477, -101449, -108326, -108017>>)
    @@ (<<"x20", FALSE, <<"high", 1, 1>>, "hamming", 4, 0>> :>
        <<-98416, -100428>>)
    @@ (<<"x20", FALSE, <<"high", 1, 1>>, "hamming", 4, 3>> :>
        <<-97461, -99827>>)
    @@ (<<"x20", FALSE, <<"high", 1, 1>>, "hamming", 8, 0>> :>
        <<-119227, -96423, -94655, -104774>>)
    @@ (<<"x20", FALSE, <<"high", 1, 1>>, "hamming", 8, 6>> :>
        <<-112355, -97078, -95231, -103791>>)
    @@ (<<"x20", FALSE, <<"high", 1, 1>>, "hamming", 8, 7>> :>
        <<-112377, -96960, -95269, -104505>>)
    @@ (<<"x20", FALSE, <<"high", 1, 1>>, "hamming", 20, 0>> :>
        <<-121656, -133649, -129324, -118765, -99967, -92184, -92378, -101120, -109908, -107430>>)
    @@ (<<"x20", FALSE, <<"high", 1, 1>>, "hamming", 20, 16>> :>
        <<-121656, -133649, -129324, -118765, -99967, -92184, -92378, -101120, -109908, -107430>>)
    @@ (<<"x20", FALSE, <<"high", 1, 1>>, "hamming", 20, 19>> :>
        <<-121656, -133649, -129324, -118765, -99967, -92184, -92378, -101120, -109908, -107430>>)

\* lines 118-122: the level of the estimate in bin k of the samples x
WelchLevel(x, window, nperseg, noverlap, k) ==
    WelchTable[<<x.name, x.detrended, x.filter, window, nperseg, noverlap>>][k] + x.gain

\* lines 130-133: one retained power value
PowerValue(c, data, k) ==
    [k |-> k,
     level |-> WelchLevel(Prepared(c, data), c.window_type,
                          Nperseg(c, data), Noverlap(c, data), k),
     response_removed |-> c.response_removal_enabled]

\* lines 136-146 on one power value: 10 * log10 of it after the conversion
Db(c, nperseg, v) ==
    v.level
    - (IF v.response_removed THEN ResponseDb(BinFreq(c, nperseg, v.k)) ELSE 0)
    + (IF InstrumentBranch(c.instrument_type) = "omega"
       THEN OmegaDb(BinFreq(c, nperseg, v.k)) ELSE 0)

(***************************************************************************)
(* _setup_period_binning and _smooth_psd.  The periods are those of the    *)
(* retained bins kmin..kmax: nperseg / (k * fs).  Bin j has centre         *)
(* pmin * 2^(j/8) and edges pmin * 2^(j/8 -+ 1/2), pmin the period of      *)
(* kmax, so every comparison of a period with an edge or a centre is one   *)
(* of 2^e * k^8 with kmax^8.  Where the two are equal the doubles of the   *)
(* source decide, and the tables below record what they decide at sample   *)
(* rate 4.                                                                 *)
(***************************************************************************)
\* <<nperseg, kmin, kmax>> where the centre that equals the longest period
\* comes out below it, so that the loop of lines 245-252 runs once more
CentreTieBelow ==
    { <<4, 1, 1>>, <<4, 2, 2>>, <<6, 1, 1>>, <<6, 2, 2>>, <<6, 3, 3>>,
      <<8, 1, 1>>, <<8, 2, 2>>, <<8, 3, 3>>, <<8, 4, 4>>,
      <<20, 3, 3>>, <<20, 5, 5>>, <<20, 6, 6>>, <<20, 10, 10>> }

\* <<nperseg, kmax, j, k>> where the left edge of bin j equals the period
\* of k and comes out above it (line 176 then leaves k out)
LeftTieAbove ==
    { <<6, 2, 4, 2>>, <<8, 4, 12, 2>>, <<20, 3, 4, 3>>, <<20, 4, 12, 2>>,
      <<20, 6, 4, 6>>, <<20, 6, 12, 3>>, <<20, 7, 4, 7>>, <<20, 8, 12, 4>>,
      <<20, 8, 20, 2>>, <<20, 9, 4, 9>>, <<20, 10, 12, 5>> }

\* lines 245-252: the number of passes of the loop; pass j stops it when
\* the centre of bin j is not below the longest period.
RECURSIVE LoopPasses(_, _, _, _)
LoopPasses(nperseg, kmin, kmax, j) ==
    LET cmp == CmpPow2(j, Pow8(kmin), Pow8(kmax)) IN
    IF cmp > 0 \/ (cmp = 0 /\ <<nperseg, kmin, kmax>> \notin CentreTieBelow)
    THEN j
    ELSE LoopPasses(nperseg, kmin, kmax, j + 1)

\* _setup_period_binning, lines 236-263: the number of bins
NumBins(nperseg, kmin, kmax) == LoopPasses(nperseg, kmin, kmax, 0) + 1

\* A selection that tests the left edge only.
InBin_LeftOnly(nperseg, kmax, j, k) ==
    LET lo == CmpPow2(j - 4, Pow8(k), Pow8(kmax))
    IN  lo < 0 \/ (lo = 0 /\ <<nperseg, kmax, j, k>> \notin LeftTieAbove)

\* A selection that takes a period at the centre of the bin only.
InBin_CentreOnly(nperseg, kmax, j, k) ==
    CmpPow2(j, Pow8(k), Pow8(kmax)) = 0

\* line 176: per_left <= period of k <= per_right for bin j
InBin(nperseg, kmax, j, k) ==
    LET lo == CmpPow2(j - 4, Pow8(k), Pow8(kmax))
        hi == CmpPow2(j + 4, Pow8(k), Pow8(kmax))
    IN  /\ lo < 0 \/ (lo = 0 /\ <<nperseg, kmax, j, k>> \notin LeftTieAbove)
        /\ hi >= 0

\* A binning with every bin half-open.
DbBin_HalfOpen(v) ==
    IF v < PSD_DB_RANGE[1] * 1000 \/ v >= PSD_DB_RANGE[Len(PSD_DB_RANGE)] * 1000 THEN 0
    ELSE (v \div 1000) - PSD_DB_RANGE[1] + 1

\* the 1-dB bin np.histogram puts the value v in (0 when in none): bin i is
\* [edge i, edge i+1), but the last one also takes its right edge.
DbBin(v) ==
    IF v < PSD_DB_RANGE[1] * 1000 \/ v > PSD_DB_RANGE[Len(PSD_DB_RANGE)] * 1000 THEN 0
    ELSE IF v = PSD_DB_RANGE[Len(PSD_DB_RANGE)] * 1000 THEN Len(PSD_DB_RANGE) - 1
    ELSE (v \div 1000) - PSD_DB_RANGE[1] + 1

\* the counts of the bin numbers over the 1-dB bins
CountBins(bins) ==
    [i \in 1..(Len(PSD_DB_RANGE) - 1) |-> Cardinality({n \in DOMAIN bins : bins[n] = i})]

\* line 184
Histogram(values) == CountBins([n \in DOMAIN values |-> DbBin(values[n])])

\* float('nan') as a mean: no sum over no point
NaN == <<0, 0>>

\* lines 175-188 for bin j: the mean (sum over count) and the histogram row
SmoothBin(nperseg, ks, psd, j) ==
    LET sel == SelectSeq([n \in DOMAIN ks |-> n],
                         LAMBDA n : InBin(nperseg, ks[Len(ks)], j, ks[n]))
        vals == [n \in DOMAIN sel |-> psd[sel[n]]]
    IN  IF sel # <<>>
        THEN [mean |-> <<SumSeq(vals), Len(vals)>>, hist |-> Histogram(vals)]
        ELSE [mean |-> NaN, hist |-> [i \in 1..(Len(PSD_DB_RANGE) - 1) |-> 0]]

\* Outputs whose histogram rows stay in period order.
SmoothOutputs_RowsNotReversed(fmax, rows) ==
    [smoothed_frequencies |-> [i \in DOMAIN rows |-> <<fmax[1], fmax[2], Len(rows) - i>>],
     smoothed_psd |-> [i \in DOMAIN rows |-> rows[i].mean],
     psd_distribution |-> [i \in DOMAIN rows |-> rows[Len(rows) + 1 - i].hist]]

\* lines 190-199: the three outputs, cut out of the rows of the bins
SmoothOutputs(fmax, rows) ==
    [smoothed_frequencies |-> [i \in DOMAIN rows |-> <<fmax[1], fmax[2], Len(rows) - i>>],
     smoothed_psd |-> [i \in DOMAIN rows |-> rows[i].mean],
     psd_distribution |-> [i \in DOMAIN rows |-> rows[i].hist]]

\* _smooth_psd, lines 160-199.  A smoothed frequency 1 / centre is
\* <<n, d, j>>, standing for (n / d) * 2^(-j/8).  All three outputs are
\* reversed into frequency order: index i holds bin j = nb - i.
SmoothPsd(c, nperseg, ks, psd) ==
    LET nb == NumBins(nperseg, ks[1], ks[Len(ks)]) IN
    SmoothOutputs(BinFreq(c, nperseg, ks[Len(ks)]),
                  [i \in 1..nb |-> SmoothBin(nperseg, ks, psd, nb - i)])

\* What a call leaves behind: the instance, and the exception or the value
Raise(c, e) == [calc |-> c, raised |-> TRUE, error |-> e, returned |-> <<>>]

Return(c, v) == [calc |-> c, raised |-> FALSE, error |-> "", returned |-> v]

\* A test of the input that lets an empty array through.
InputError_TypeOnly(data) ==
    IF ~data.is_ndarray THEN "Input data must be a numpy array" ELSE ""

\* lines 95-99: the message of the ValueError raised for the input, "" if none
InputError(data) ==
    IF ~data.is_ndarray THEN "Input data must be a numpy array"
    ELSE IF data.size = 0 THEN "Input data is empty"
    ELSE ""

\* lines 149-152: the smoothed results are stored and the pair returned
StoreSmoothed(c2, s, frequencies, psd) ==
    Return([c2 EXCEPT !.smoothed_frequencies = s.smoothed_frequencies,
                      !.smoothed_psd = s.smoothed_psd,
                      !.psd_distribution = s.psd_distribution,
                      !.assigned = @ \cup {"smoothed_frequencies", "smoothed_psd",
                                           "psd_distribution"}],
           <<frequencies, psd>>)

\* A conversion that hands back an empty spectrum when nothing was retained.
ConvertAndSmooth_EmptyReturned(c1, nperseg, ks, frequencies, psd) ==
    LET c2 == [c1 EXCEPT !.psd = psd, !.assigned = @ \cup {"psd"}] IN
    IF ks = <<>> THEN Return(c2, <<frequencies, psd>>)
    ELSE StoreSmoothed(c2, SmoothPsd(c1, nperseg, ks, psd), frequencies, psd)

\* lines 146-152: psd is stored; _smooth_psd fails on periods[0] when the
\* clip retained nothing
ConvertAndSmooth(c1, nperseg, ks, frequencies, psd) ==
    LET c2 == [c1 EXCEPT !.psd = psd, !.assigned = @ \cup {"psd"}] IN
    IF ks = <<>> THEN Raise(c2, "index 0 is out of bounds")
    ELSE StoreSmoothed(c2, SmoothPsd(c1, nperseg, ks, psd), frequencies, psd)

\* line 218: 2 * np.pi / self.natural_period divides by zero
RemoveResponseRaises(c) == c.natural_period = 0

\* lines 118-143: the Welch estimate is clipped and stored, then converted
ClipAndConvert(c, data, nperseg, ks) ==
    LET frequencies == [n \in DOMAIN ks |-> BinFreq(c, nperseg, ks[n])]
        psd_v == [n \in DOMAIN ks |-> PowerValue(c, data, ks[n])]
        c1 == [c EXCEPT !.frequencies = frequencies, !.psd_v = psd_v,
                        !.assigned = @ \cup {"frequencies", "psd_v"}]
    IN  IF c.response_removal_enabled /\ RemoveResponseRaises(c)
        THEN Raise([c1 EXCEPT !.psd_v = [n \in DOMAIN ks |->
                                   [psd_v[n] EXCEPT !.response_removed = FALSE]]],
                   "float division by zero")
        ELSE IF InstrumentBranch(c.instrument_type) = "raise"
        THEN Raise(c1, "Invalid instrument type")
        ELSE ConvertAndSmooth(c1, nperseg, ks, frequencies,
                              [n \in DOMAIN ks |-> Db(c, nperseg, psd_v[n])])

\* calculate_psd, lines 93-152.  Detrending and the division by the
\* sensitivity, lines 102-105, raise for no array of the model; what they do
\* to the samples is in Prepared, which PowerValue reads.
CalculatePsd(c, data) ==
    IF InputError(data) # "" THEN Raise(c, InputError(data))
    ELSE IF c.filter_enabled /\ FilterRaises(c, data) THEN Raise(c, "filter design")
    ELSE IF \/ WindowRaises(c.window_type)
            \/ WelchRaises(Nperseg(c, data), Noverlap(c, data))
    THEN Raise(c, "welch")
    ELSE ClipAndConvert(c, data, Nperseg(c, data), RetainedBins(c, Nperseg(c, data)))

(***************************************************************************)
(* The calculator as a state machine: one instance, built once, then       *)
(* configured through its property setters and asked for spectra.          *)
(* outcome is what the last operation did: its name, its argument, and     *)
(* what it raised or returned.                                             *)
(***************************************************************************)
MaxOps == 3

NoInstance == [instance |-> FALSE]

Outcome(op, arg, raised, error, returned) ==
    [op |-> op, arg |-> arg, raised |-> raised, error |-> error, returned |-> returned]

NoOutcome == Outcome("none", "", FALSE, "", <<>>)

\* The file NOISE_MODEL_FILE names, as np.load finds it: whether it is
\* there, whether numpy can read it, and the arrays it holds.
NoiseFile(exists, loadable, keys) ==
    [exists |-> exists, loadable |-> loadable, keys |-> keys,
     model_periods |-> <<1, 10, 100>>, low_noise |-> <<-168, -163, -185>>,
     high_noise |-> <<-92, -98, -131>>]

NoiseKeys == {"model_periods", "low_noise", "high_noise"}

BundledNoiseFile == NoiseFile(TRUE, TRUE, NoiseKeys)

NoiseFiles ==
    {NoiseFile(FALSE, FALSE, {}), NoiseFile(TRUE, FALSE, {})}
    \cup {NoiseFile(TRUE, TRUE, NoiseKeys \ {k}) : k \in NoiseKeys}
    \cup {NoiseFile(TRUE, TRUE, {}), BundledNoiseFile}

CalcIdle ==
    /\ constructed = FALSE
    /\ calc = NoInstance
    /\ outcome = NoOutcome
    /\ ops = 0
    /\ noise_file = BundledNoiseFile

\* The values the callers of the model hand to the constructor and setters
SensitivityValues == {1, 10}
InstrumentTypes == {0, 1, 2}
NaturalPeriods == {10, 0}
FilterTypeValues == {"High Pass", "Band Pass", "Low Pass"}
WindowTypeValues == {"hamming", "kaiser"}
OverlapValues == {0, 99, 150}
WindowSizeValues == {1, 2}
CutoffValues == {<< <<1, 1>> >>, << <<1, 2>>, <<3, 2>> >>, << <<1, 2>>, <<1, 1>>, <<3, 2>> >>}
PsdFreqMinValues == {<<1, 1>>, <<5, 1>>}
PsdFreqMaxValues == {<<1, 1>>, <<3, 5>>}

Step(op, arg, c, raised, error, returned) ==
    /\ constructed
    /\ ops < MaxOps
    /\ calc' = c
    /\ outcome' = Outcome(op, arg, raised, error, returned)
    /\ ops' = ops + 1
    /\ UNCHANGED <<constructed, noise_file, nonCalcVars>>

\* PSDCalculator(sample_rate, sensitivity, instrument_type,
\* natural_period=period), lines 21-71
Construct(sens, it, period) ==
    /\ ~constructed
    /\ constructed' = TRUE
    /\ calc' = NewCalculator(4, sens, it, period)
    /\ outcome' = Outcome("__init__", it, FALSE, "", <<>>)
    /\ UNCHANGED <<ops, noise_file, nonCalcVars>>

\* filter_enabled setter, line 274
SetFilterEnabled(value) ==
    Step("filter_enabled", value, [calc EXCEPT !.filter_enabled = value], FALSE, "", <<>>)

\* filter_type setter, lines 281-286
SetFilterType(value) ==
    IF ValidFilterType(value)
    THEN Step("filter_type", value, [calc EXCEPT !.filter_type = value], FALSE, "", <<>>)
    ELSE Step("filter_type", value, calc, TRUE,
              "Filter type must be 'High Pass' or 'Band Pass'", <<>>)

\* cutoff_freq setter, lines 295-304; a scalar is a tuple of one here
SetCutoffFreq(value) ==
    IF Len(value) = 1
    THEN Step("cutoff_freq", value, [calc EXCEPT !.cutoff_freq = value[1]], FALSE, "", <<>>)
    ELSE IF Len(value) # 2
    THEN Step("cutoff_freq", value, calc, TRUE,
              "Band pass filter requires (low, high) frequency tuple", <<>>)
    ELSE Step("cutoff_freq", value,
              [calc EXCEPT !.low_freq = value[1], !.high_freq = value[2]], FALSE, "", <<>>)

\* window_size setter, line 314
SetWindowSize(value) ==
    Step("window_size", value, [calc EXCEPT !.window_size = value], FALSE, "", <<>>)

\* overlap setter, line 324
SetOverlap(value) ==
    Step("overlap", value, [calc EXCEPT !.overlap = value], FALSE, "", <<>>)

\* window_type setter, lines 331-337
SetWindowType(value) ==
    IF ValidWindowType(value)
    THEN Step("window_type", value, [calc EXCEPT !.window_type = value], FALSE, "", <<>>)
    ELSE Step("window_type", value, calc, TRUE, "Window type must be one of", <<>>)

\* response_removal_enabled setter, line 347
SetResponseRemovalEnabled(value) ==
    Step("response_removal_enabled", value,
         [calc EXCEPT !.response_removal_enabled = value], FALSE, "", <<>>)

\* psd_freq_min setter, line 357
SetPsdFreqMin(value) ==
    Step("psd_freq_min", value, [calc EXCEPT !.psd_freq_min = value], FALSE, "", <<>>)

\* psd_freq_max setter, line 367
SetPsdFreqMax(value) ==
    Step("psd_freq_max", value, [calc EXCEPT !.psd_freq_max = value], FALSE, "", <<>>)

\* a call of calculate_psd(data)
Calculate(data) ==
    /\ constructed /\ ops < MaxOps
    /\ \E r \in {CalculatePsd(calc, data)} :
          Step("calculate_psd", data, r.calc, r.raised, r.error, r.returned)

CalcNext ==
    \/ \E sens \in SensitivityValues, it \in InstrumentTypes, period \in NaturalPeriods :
          Construct(sens, it, period)
    \/ \E v \in {TRUE} : SetFilterEnabled(v)
    \/ \E v \in FilterTypeValues : SetFilterType(v)
    \/ \E v \in CutoffValues : SetCutoffFreq(v)
    \/ \E v \in WindowSizeValues : SetWindowSize(v)
    \/ \E v \in OverlapValues : SetOverlap(v)
    \/ \E v \in WindowTypeValues : SetWindowType(v)
    \/ \E v \in {TRUE} : SetResponseRemovalEnabled(v)
    \/ \E v \in PsdFreqMinValues : SetPsdFreqMin(v)
    \/ \E v \in PsdFreqMaxValues : SetPsdFreqMax(v)
    \/ \E data \in Segments : Calculate(data)


(***************************************************************************)
(* The methods of the calculator that are functions of their arguments,    *)
(* called on their own: get_noise_models, _setup_period_binning and        *)
(* _smooth_psd.                                                            *)
(***************************************************************************)
\* A lookup that stops at the first two fields.
MissingKey_FirstTwo(keys) ==
    IF "model_periods" \notin keys THEN "model_periods"
    ELSE IF "low_noise" \notin keys THEN "low_noise"
    ELSE ""

\* lines 79-81: the first field whose lookup raises KeyError, "" if none
MissingKey(keys) ==
    IF "model_periods" \notin keys THEN "model_periods"
    ELSE IF "low_noise" \notin keys THEN "low_noise"
    ELSE IF "high_noise" \notin keys THEN "high_noise"
    ELSE ""

\* get_noise_models, lines 73-91
GetNoiseModels(res) ==
    IF ~res.exists THEN Raise(res, "FileNotFoundError")
    ELSE IF ~res.loadable THEN Raise(res, "cannot load")
    ELSE IF MissingKey(res.keys) # ""
    THEN Raise(res, "Invalid noise model file format")
    ELSE Return(res, <<res.model_periods, res.low_noise, res.high_noise>>)

\* _setup_period_binning(1.0, 0.125, limits), lines 226-263, for the limits
\* (period of kmax, period of kmin).  An entry <<n, d, s>> is the period
\* (n / d) * 2^(s/16): bin j has its centre at s = 2j, its edges at
\* s = 2j -+ 8 and its plotting edges at s = 2j -+ 1.
SetupPeriodBinning(c, nperseg, kmin, kmax) ==
    [r \in 1..5 |->
        [n \in 1..NumBins(nperseg, kmin, kmax) |->
            <<nperseg, kmax * c.sample_rate, 2 * (n - 1) + <<-8, -1, 0, 1, 8>>[r]>>]]

\* _smooth_psd(frequencies, psd) called on the instance c, lines 154-199:
\* psd_distribution is stored, the smoothed pair is returned.
SmoothReturn(c, s) ==
    Return([c EXCEPT !.psd_distribution = s.psd_distribution,
                     !.assigned = @ \cup {"psd_distribution"}],
           <<s.smoothed_frequencies, s.smoothed_psd>>)

SmoothPsdCall(c, nperseg, ks, psd) ==
    IF ks = <<>> THEN Raise(c, "index 0 is out of bounds")
    ELSE SmoothReturn(c, SmoothPsd(c, nperseg, ks, psd))

\* The arguments of the calls: Welch bins of a segment length, not
\* necessarily adjacent, and a dB value for each.
BinLists ==
    { [nperseg |-> 8, ks |-> <<1, 2, 3, 4>>], [nperseg |-> 8, ks |-> <<1, 4>>],
      [nperseg |-> 20, ks |-> <<2, 9, 10>>], [nperseg |-> 6, ks |-> <<>>] }

\* dB values (in thousandths) around both ends of PSD_DB_RANGE
DbValues == <<-200001, -200000, -120500, -50001, -50000, -49999>>

SmoothArgs ==
    {[nperseg |-> b.nperseg, ks |-> b.ks,
      psd |-> [n \in DOMAIN b.ks |-> DbValues[((n + o) % Len(DbValues)) + 1]]] :
        b \in BinLists, o \in 0..(Len(DbValues) - 1)}

\* period limits: those of the bin lists, and single periods (2.0 s for
\* bin 1 of 8, 1.25 s for bin 4 of 20, 0.5 s for bin 10 of 20)
BinningArgs ==
    {[nperseg |-> b.nperseg, kmin |-> b.ks[1], kmax |-> b.ks[Len(b.ks)]] :
        b \in {x \in BinLists : x.ks # <<>>}}
    \cup {[nperseg |-> 8, kmin |-> 1, kmax |-> 1], [nperseg |-> 20, kmin |-> 4, kmax |-> 4],
          [nperseg |-> 20, kmin |-> 10, kmax |-> 10], [nperseg |-> 8, kmin |-> 2, kmax |-> 4]}

CallGetNoiseModels ==
    \E r \in {GetNoiseModels(noise_file)} :
    Step("get_noise_models", noise_file, calc, r.raised, r.error, r.returned)

CallSetupPeriodBinning(a) ==
    Step("_setup_period_binning", a, calc, FALSE, "",
         SetupPeriodBinning(calc, a.nperseg, a.kmin, a.kmax))

CallSmoothPsd(a) ==
    /\ constructed /\ ops < MaxOps
    /\ \E r \in {SmoothPsdCall(calc, a.nperseg, a.ks, a.psd)} :
          Step("_smooth_psd", a, r.calc, r.raised, r.error, r.returned)

FnStart ==
    /\ constructed = TRUE
    /\ calc = NewCalculator(4, 1, 0, 10)
    /\ outcome = NoOutcome
    /\ ops = 0
    /\ noise_file \in NoiseFiles

FnNext ==
    \/ CallGetNoiseModels
    \/ \E a \in BinningArgs : CallSetupPeriodBinning(a)
    \/ \E a \in SmoothArgs : CallSmoothPsd(a)

(***************************************************************************)
(* ======================  PSDProcessingWorker  ========================== *)
(* The batch run of the calculation dialog: every file of file_list goes   *)
(* through process_file, which reads it, builds and configures a           *)
(* calculator, computes the spectrum and saves the artifact next to the    *)
(* file, in the folder PSD_FOLDER_NAME.                                    *)
(***************************************************************************)
MaxBatch == 2

\* plugin_manager.get_available_readers(): ".segy" and ".zw"
Readers == {".segy", ".zw"}

\* str.lower() on the suffixes of the model
Lower(ext) == IF ext = ".SEGY" THEN ".segy" ELSE ext

\* A waveform file: where it is, and what its reader makes of it: the read
\* fails (Unreadable), or gives a stream of traces.
WaveFile(parent, stem, ext, content) ==
    [parent |-> parent, stem |-> stem, ext |-> ext, content |-> content]

Stream(traces) == [readable |-> TRUE, traces |-> traces, sampling_rate |-> 4]

Unreadable == [readable |-> FALSE, traces |-> <<>>, sampling_rate |-> 4]

WaveFiles ==
    { WaveFile("d1", <<"a">>, ".segy", Stream(<<DataLong>>)),
      WaveFile("d1", <<"b">>, ".SEGY", Stream(<<DataShort, DataLong>>)),
      WaveFile("d1", <<"a">>, ".zw", Stream(<<DataEmpty>>)),
      WaveFile("d2", <<"c">>, ".zw", Stream(<<>>)),
      WaveFile("d1", <<"d">>, ".segy", Unreadable),
      WaveFile("d1", <<"e">>, ".txt", Stream(<<DataLong>>)) }

\* The attributes the dialog sets on the worker before the run
WorkerSettings(it, wt, fe) ==
    [sensitivity |-> 1, instrument_type |-> it, natural_period |-> 10,
     filter_enabled |-> fe, filter_type |-> "High Pass", filter_freq |-> <<1, 1>>,
     low_freq |-> <<1, 1>>, high_freq |-> <<20, 1>>, response_enabled |-> FALSE,
     window_size |-> 1000, overlap |-> 80, window_type |-> wt,
     psd_freq_min |-> <<1, 1000>>, psd_freq_max |-> <<100, 1>>]

Settings ==
    {WorkerSettings(it, wt, fe) :
        it \in InstrumentTypes, wt \in {"hann", "kaiser"}, fe \in BOOLEAN}

\* lines 121-138: the first setter that raises, "" if none does
ConfigError(w) ==
    IF w.filter_enabled /\ ~ValidFilterType(w.filter_type)
    THEN "Filter type must be 'High Pass' or 'Band Pass'"
    ELSE IF ~ValidWindowType(w.window_type) THEN "Window type must be one of"
    ELSE ""

\* lines 121-138: the calculator after the setters
Configure(c, w) ==
    LET c1 == [c EXCEPT !.filter_enabled = w.filter_enabled,
                        !.response_removal_enabled = w.response_enabled]
        c2 == IF ~w.filter_enabled THEN c1
              ELSE IF w.filter_type = "High Pass"
              THEN [c1 EXCEPT !.filter_type = w.filter_type,
                              !.cutoff_freq = w.filter_freq]
              ELSE [c1 EXCEPT !.filter_type = w.filter_type,
                              !.low_freq = w.low_freq, !.high_freq = w.high_freq]
    IN  [c2 EXCEPT !.window_size = w.window_size, !.overlap = w.overlap,
                   !.window_type = w.window_type,
                   !.psd_freq_min = w.psd_freq_min, !.psd_freq_max = w.psd_freq_max]

\* A range that keeps every edge.
SavedDbRange_Whole == PSD_DB_RANGE

\* line 158: PSD_DB_RANGE[:-1]
SavedDbRange == SubSeq(PSD_DB_RANGE, 1, Len(PSD_DB_RANGE) - 1)

\* lines 144-148: where the artifact goes
OutFile(f) ==
    [dir |-> <<f.parent, PSD_FOLDER_NAME>>, name |-> f.stem \o PSD_FILE_SUFFIX]

\* lines 151-170: the arrays np.savez writes
SavedArtifact(c) ==
    [frequencies |-> c.frequencies, psd |-> c.psd,
     f_smoothed |-> c.smoothed_frequencies, smoothed_psd |-> c.smoothed_psd,
     psd_distribution |-> c.psd_distribution, psd_db_range |-> SavedDbRange]

Failed(e) == [ok |-> FALSE, error |-> e]

\* A save made whatever calculate_psd did.
Saved_EvenIfRaised(r) ==
    [ok |-> TRUE, error |-> "", artifact |-> SavedArtifact(r.calc)]

\* lines 141-170: the artifact is written once calculate_psd has returned
Saved(r) ==
    IF r.raised THEN Failed(r.error)
    ELSE [ok |-> TRUE, error |-> "", artifact |-> SavedArtifact(r.calc)]

\* process_file, lines 88-176: the error it raises, or the artifact it saves
ProcessFile(w, f) ==
    IF Lower(f.ext) \notin Readers THEN Failed("Unsupported file format")
    ELSE IF ~f.content.readable THEN Failed("read failed")
    ELSE IF Len(f.content.traces) = 0 THEN Failed("Invalid data format")
    ELSE IF ConfigError(w) # "" THEN Failed(ConfigError(w))
    ELSE Saved(CalculatePsd(
             Configure(NewCalculator(f.content.sampling_rate, w.sensitivity,
                                     w.instrument_type, w.natural_period), w),
             f.content.traces[1]))

\* int((i + 1) / total_files * 100) for the 0-based index i = n - 1
\* <<n, total>>, up to 300 files, where n / total * 100 is a whole number
\* and the double the source computes comes out below it
ProgressBelow ==
    { <<29, 50>>, <<29, 100>>, <<57, 100>>, <<58, 100>>, <<87, 150>>, <<58, 200>>,
      <<114, 200>>, <<116, 200>>, <<145, 250>>, <<87, 300>>, <<171, 300>>,
      <<174, 300>> }

Progress(n, total) ==
    (n * 100) \div total - (IF <<n, total>> \in ProgressBelow THEN 1 ELSE 0)

BatchStart ==
    /\ file_list \in SeqsUpTo(WaveFiles, MaxBatch)
    /\ settings \in Settings
    /\ bpc = "start"
    /\ bi = 1
    /\ disk = EmptyDict
    /\ bsignals = <<>>
    /\ blog = <<>>

\* run, lines 64-69: nothing to do
BatchNoFiles ==
    /\ bpc = "start" /\ file_list = <<>>
    /\ blog' = Append(blog, [level |-> "warning", file |-> "none", text |-> "No files to process"])
    /\ bsignals' = bsignals \o << <<"error", "No files to process">>, <<"finished">> >>
    /\ bpc' = "done"
    /\ UNCHANGED <<file_list, settings, bi, disk, nonBatchVars>>

\* lines 90 and 172: what the log gets for a file that was saved
LogSaved(f) ==
    << [level |-> "info", file |-> f, text |-> "Processing file"],
       [level |-> "info", file |-> f, text |-> "Saved PSD data"] >>

\* lines 90, 175 and 78: what the log gets for a file that failed, from
\* process_file and then from run
LogFailed(f, e) ==
    << [level |-> "info", file |-> f, text |-> "Processing file"],
       [level |-> "error", file |-> f, text |-> e],
       [level |-> "error", file |-> f, text |-> e] >>

\* A pass of the loop that gives up the run at the first failure.
BatchFile_StopsAtFailure ==
    /\ bpc \in {"start", "loop"} /\ bi <= Len(file_list)
    /\ \E r \in {ProcessFile(settings, file_list[bi])} :
          IF r.ok
          THEN /\ disk' = [q \in DOMAIN disk \cup {OutFile(file_list[bi])} |->
                              IF q = OutFile(file_list[bi]) THEN r.artifact ELSE disk[q]]
               /\ blog' = blog \o LogSaved(file_list[bi])
               /\ bsignals' = Append(bsignals, <<"progress", Progress(bi, Len(file_list))>>)
               /\ bi' = bi + 1
          ELSE /\ disk' = disk
               /\ blog' = blog \o LogFailed(file_list[bi], r.error)
               /\ bsignals' = bsignals
               /\ bi' = Len(file_list) + 1
    /\ bpc' = "loop"
    /\ UNCHANGED <<file_list, settings, nonBatchVars>>

\* run, lines 72-78: one pass of the loop, for the file at index bi
BatchFile ==
    /\ bpc \in {"start", "loop"} /\ bi <= Len(file_list)
    /\ \E r \in {ProcessFile(settings, file_list[bi])} :
          IF r.ok
          THEN /\ disk' = [q \in DOMAIN disk \cup {OutFile(file_list[bi])} |->
                              IF q = OutFile(file_list[bi]) THEN r.artifact ELSE disk[q]]
               /\ blog' = blog \o LogSaved(file_list[bi])
               /\ bsignals' = Append(bsignals, <<"progress", Progress(bi, Len(file_list))>>)
          ELSE /\ disk' = disk
               /\ blog' = blog \o LogFailed(file_list[bi], r.error)
               /\ bsignals' = bsignals
    /\ bi' = bi + 1
    /\ bpc' = "loop"
    /\ UNCHANGED <<file_list, settings, nonBatchVars>>

\* run, lines 81-86: after the loop
BatchEnd ==
    /\ bpc = "loop" /\ bi > Len(file_list)
    /\ bsignals' = bsignals \o << <<"progress", 100>>, <<"finished">>, <<"finished">> >>
    /\ bpc' = "done"
    /\ UNCHANGED <<file_list, settings, bi, disk, blog, nonBatchVars>>

BatchNext == BatchNoFiles \/ BatchFile \/ BatchEnd

(***************************************************************************)
(* ==========================  PSDPDFDialog  ============================= *)
(* The dialog as the GUI thread runs it, and the loading workers it has    *)
(* started.                                                                *)
(*   dlg       the attributes of the dialog and the state of its widgets   *)
(*   workers   workers[i] is the i-th PSDLoadingWorker plot() created:     *)
(*             what it was constructed with and how far its run has got    *)
(*   events    the signals the workers have emitted that the GUI thread    *)
(*             has not handled yet.  A worker is a QThread, so a signal it *)
(*             emits from run is queued to the thread of the dialog and    *)
(*             its slot runs there later, in the order of emission.        *)
(* A text of a widget is the sequence of its characters.                   *)
(***************************************************************************)
\* Bound: the number of workers the dialog starts.
MaxPlots == 2

\* plot_type_combo, line 486, and two of the colormaps of line 499
PlotTypes == {"PDF", "PSD", "PSD Time-Frequency"}

Colormaps == {"viridis", "plasma"}

\* group_length_unit, line 543
GroupUnits == {"hour", "day"}

\* row_combo and col_combo, lines 513 and 519
GridItems == {<<"1">>, <<"2">>, <<"3">>, <<"4">>}

\* what is typed into group_length_edit
GroupLengthTexts == {<<"2">>, <<"0">>, <<"x">>, <<>>, <<"\r", "2">>}

\* The characters int() strips from both ends of its argument: the white
\* space of ASCII (the vertical tab is written "U+000B") and the blanks of
\* Unicode, written by their code points.  The separators U+001C to U+001F
\* are not among them.
WhiteSpace ==
    {" ", "\t", "\n", "\r", "\f", "U+000B", "U+0085", "U+00A0", "U+1680",
     "U+2000", "U+2001", "U+2002", "U+2003", "U+2004", "U+2005", "U+2006",
     "U+2007", "U+2008", "U+2009", "U+200A", "U+2028", "U+2029", "U+202F",
     "U+205F", "U+3000"}

RECURSIVE LStrip(_)
LStrip(s) == IF s # <<>> /\ Head(s) \in WhiteSpace THEN LStrip(Tail(s)) ELSE s

RECURSIVE RStrip(_)
RStrip(s) ==
    IF s # <<>> /\ s[Len(s)] \in WhiteSpace THEN RStrip(SubSeq(s, 1, Len(s) - 1)) ELSE s

\* The digits of an integer literal: decimal digits, with single
\* underscores between them
ValidDigits(s) ==
    /\ s # <<>>
    /\ IsDigit(s[1]) /\ IsDigit(s[Len(s)])
    /\ \A i \in DOMAIN s : IsDigit(s[i]) \/ s[i] = "_"
    /\ \A i \in 1..(Len(s) - 1) : ~(s[i] = "_" /\ s[i + 1] = "_")

RECURSIVE DigitsValue(_, _)
DigitsValue(s, acc) ==
    IF s = <<>> THEN acc
    ELSE DigitsValue(Tail(s), IF Head(s) = "_" THEN acc ELSE 10 * acc + DigitVal(Head(s)))

\* int(text): the value, or ok FALSE where it raises ValueError
ParseInt(text) ==
    LET t    == RStrip(LStrip(text))
        sign == t # <<>> /\ Head(t) \in {"+", "-"}
        body == IF sign THEN Tail(t) ELSE t
    IN  IF ValidDigits(body)
        THEN [ok |-> TRUE,
              value |-> IF sign /\ Head(t) = "-" THEN -DigitsValue(body, 0)
                        ELSE DigitsValue(body, 0)]
        ELSE [ok |-> FALSE, value |-> 0]

Max(a, b) == IF a >= b THEN a ELSE b

\* The result a run emits with data_ready, known by the worker that made it
\* (request), the plot type it was loaded for, the keys of
\* result_data['groups'] and the files their group_data was loaded from.
\* NoData stands for None.
PlotData(request, plot_type, groups, group_files) ==
    [request |-> request, plot_type |-> plot_type, groups |-> groups,
     files |-> group_files]

NoData == PlotData(0, "", {}, EmptyDict)

\* A signal on its way to the dialog, with the worker that emitted it
Signal(worker, name, data, current, total, msg) ==
    [worker |-> worker, name |-> name, data |-> data, current |-> current,
     total |-> total, msg |-> msg]

\* PSDLoadingWorker.__init__, lines 37-41, and line 693.  pc is "run" while
\* run is in its try block, "finally" once that is left and finished is
\* still to be emitted, "done" when run has returned and "terminated" when
\* the thread was killed; gi is the position of the group loop, groups the
\* keys of result_data['groups'], last the name of the last signal emitted.
NewWorker(request, selected, plot_type, group_length) ==
    [request |-> request, files |-> selected, plot_type |-> plot_type,
     group_length |-> group_length, pc |-> "run", gi |-> 1, groups |-> {},
     processed_files |-> 0, last |-> ""]

\* _load_psd_line_data, lines 146-269, and _load_timefreq_data, lines
\* 271-311: the file gives the loader a PSD array
HasPsd(art) == art.loadable /\ ({"psd", "smoothed_psd"} \cap art.keys # {})

\* the length of the array _load_timefreq_data takes from the file
TimefreqLen(art) ==
    IF "smoothed_psd" \in art.keys THEN Len(art.f_smoothed) ELSE Len(art.frequencies)

\* _load_timefreq_data returns without raising.  Every file scan_files
\* selected has a time in its name, so times gets an entry per file, line
\* 285, and psd_values one per file with a PSD array, lines 288-295: with
\* fewer of these (and at least one), psd_values_array[sort_idx] of line 311
\* raises IndexError.  Arrays of different lengths make np.array of line 306
\* raise ValueError (strict), or an array of objects in the releases of
\* numpy before 1.24.
TimefreqLoads(fs, strict) ==
    LET with == {i \in DOMAIN fs : HasPsd(fs[i])} IN
    \/ with = {}
    \/ /\ with = DOMAIN fs
       /\ strict => \A i, j \in with : TimefreqLen(fs[i]) = TimefreqLen(fs[j])

\* run, lines 77-95: the group gets into the result.  np.load of the first
\* file, line 78, is outside the loaders; _load_psd_line_data passes over
\* the files it cannot use.
GroupLoads(plot_type, fs, strict) ==
    IF plot_type = "PDF" THEN ~LoadPdfData(fs).raised
    ELSE IF plot_type = "PSD" THEN fs[1].loadable
    ELSE fs[1].loadable /\ TimefreqLoads(fs, strict)

\* What a step of run leaves: the worker and the signals it has emitted
Ran(w, sigs) == [worker |-> w, emitted |-> sigs]

\* A run that returns without a word once the try block is left.
Finally_NoFinished(w) == Ran([w EXCEPT !.pc = "done"], <<>>)

\* run, line 109: finished is emitted and run returns
Finally(w) ==
    Ran([w EXCEPT !.pc = "done", !.last = "finished"],
        << Signal(w.request, "finished", NoData, 0, 0, "") >>)

\* run, lines 60-62: the position of the first group with files from gi on,
\* 0 if there is none
NextGroup(w) ==
    LET rest == {k \in w.gi..Len(Keys(w.files)) : w.files[Keys(w.files)[k]] # <<>>}
    IN  IF rest = {} THEN 0 ELSE CHOOSE k \in rest : \A m \in rest : k <= m

\* run, lines 43-107, from where the worker is to its next signal.  fault is
\* an exception raised in the try block outside the handling of a group (it
\* reaches the except of line 105).
TryBlock(w, fault, strict) ==
    IF fault
    THEN Ran([w EXCEPT !.pc = "finally", !.last = "error"],
             << Signal(w.request, "error", NoData, 0, 0, "fault") >>)
    ELSE IF w.files = EmptyDict
    THEN Ran([w EXCEPT !.pc = "done", !.last = "error"],
             << Signal(w.request, "error", NoData, 0, 0, "No files to process") >>)
    ELSE IF NextGroup(w) = 0
    THEN Ran([w EXCEPT !.pc = "finally", !.last = "data_ready"],
             << Signal(w.request, "data_ready",
                       PlotData(w.request, w.plot_type, w.groups, w.files), 0, 0, "") >>)
    ELSE LET g  == Keys(w.files)[NextGroup(w)]
             fs == w.files[g]
             n  == w.processed_files + Len(fs)
         IN  Ran([w EXCEPT !.gi = NextGroup(w) + 1,
                           !.groups = IF GroupLoads(w.plot_type, fs, strict)
                                      THEN @ \cup {g} ELSE @,
                           !.processed_files = n,
                           !.last = "progress"],
                 << Signal(w.request, "progress", NoData, n, CountFiles(w.files), "") >>)

\* run, lines 43-109, one signal at a time
RunStep(w, fault, strict) ==
    IF w.pc = "run" THEN TryBlock(w, fault, strict) ELSE Finally(w)

\* the thread of the worker is running
IsRunning(w) == w.pc \in {"run", "finally"}

\* __init__, lines 333-347, and the widgets of _init_ui.  progress_bar is
\* <<value, maximum>> of the QProgressBar, which Qt creates with the range 0
\* to 100 and no value (-1).  shown is what the canvas holds: the plot type
\* drawn and the first and last index of the groups drawn.  closing holds
\* while closeEvent waits for the thread of loading_worker to end, closed
\* once closeEvent has run.
NewDialog ==
    [selected_files |-> EmptyDict, plot_type |-> "PDF", colormap |-> "viridis",
     group_length |-> 1, group_length_edit |-> <<"1">>, group_length_unit |-> "hour",
     group_length_visible |-> FALSE, colormap_visible |-> TRUE,
     loading_worker |-> 0,
     current_page |-> 1, total_pages |-> 1, rows |-> 2, cols |-> 3,
     max_plots_per_page |-> 6, current_plot_data |-> NoData,
     row_combo |-> <<"2">>, col_combo |-> <<"3">>,
     plot_btn |-> FALSE, scan_btn |-> TRUE,
     prev_page_btn |-> FALSE, next_page_btn |-> FALSE,
     page_indicator |-> <<1, 1>>, progress_bar |-> <<-1, 100>>,
     shown |-> <<"", 0, 0>>, error_msg |-> "", closing |-> FALSE, closed |-> FALSE]

\* The dialog with the workers it has started
Gui(d, ws) == [dlg |-> d, workers |-> ws]

\* plot, lines 677-702
Plot(s) ==
    IF s.dlg.selected_files = EmptyDict THEN s
    ELSE Gui([s.dlg EXCEPT !.progress_bar = <<0, CountFiles(s.dlg.selected_files)>>,
                           !.plot_btn = FALSE, !.scan_btn = FALSE,
                           !.loading_worker = Len(s.workers) + 1],
             Append(s.workers,
                    NewWorker(Len(s.workers) + 1, s.dlg.selected_files, s.dlg.plot_type,
                              IF s.dlg.plot_type = "PSD" THEN s.dlg.group_length ELSE 1)))

\* _on_plot_type_changed, lines 605-621
OnPlotTypeChanged(s, plot_type) ==
    Plot(Gui([s.dlg EXCEPT !.plot_type = plot_type,
                           !.group_length_visible = (plot_type = "PSD"),
                           !.colormap_visible = (plot_type # "PSD")],
             s.workers))

\* _on_colormap_changed, lines 623-627
OnColormapChanged(s, colormap) ==
    Plot(Gui([s.dlg EXCEPT !.colormap = colormap], s.workers))

\* _on_group_length_changed, lines 637-645: the text was an integer
GroupLengthTaken(s, value) ==
    LET d == [s.dlg EXCEPT !.group_length =
                               IF s.dlg.group_length_unit = "day" THEN value * 24 ELSE value]
    IN  IF d.plot_type = "PSD" THEN Plot(Gui(d, s.workers)) ELSE Gui(d, s.workers)

\* group_length_edit.setText("1"), lines 636, 648, 657 and 674: where the
\* text changes, textChanged calls _on_group_length_changed("1") before
\* setText returns
SetTextOne(s) ==
    IF s.dlg.group_length_edit = <<"1">> THEN s
    ELSE GroupLengthTaken(Gui([s.dlg EXCEPT !.group_length_edit = <<"1">>], s.workers), 1)

\* _on_group_length_changed, lines 629-649, called by textChanged(text)
OnGroupLengthChanged(s, text) ==
    IF text = <<>> THEN s
    ELSE IF ~ParseInt(text).ok
    THEN LET t == SetTextOne(s)
         IN  Gui([t.dlg EXCEPT !.group_length =
                                   IF t.dlg.group_length_unit = "hour" THEN 1 ELSE 24],
                 t.workers)
    ELSE IF ParseInt(text).value < 1 THEN GroupLengthTaken(SetTextOne(s), 1)
    ELSE GroupLengthTaken(s, ParseInt(text).value)

\* _on_group_unit_changed, lines 651-675, called by currentTextChanged(unit)
\* once the combo box shows unit
OnGroupUnitChanged(s, unit) ==
    LET text == s.dlg.group_length_edit IN
    IF ~ParseInt(text).ok
    THEN LET t == SetTextOne(s)
         IN  Gui([t.dlg EXCEPT !.group_length = IF unit = "hour" THEN 1 ELSE 24],
                 t.workers)
    ELSE LET value == Max(1, ParseInt(text).value)
             t == IF ParseInt(text).value < 1 THEN SetTextOne(s) ELSE s
             d == [t.dlg EXCEPT !.group_length =
                                    IF unit = "day" THEN value * 24 ELSE value]
         IN  IF d.plot_type = "PSD" THEN Plot(Gui(d, t.workers)) ELSE Gui(d, t.workers)

\* scan_files, lines 1432-1564, as the plotting side of the dialog sees it.
\* With nothing checked in the tree it empties selected_files and returns,
\* line 1461; otherwise selected_files is what the scan selected (groups
\* without files are removed, line 1522) and the Plot button follows it,
\* line 1559.
ScanFilesDone(d, checked, selected) ==
    IF ~checked THEN [d EXCEPT !.selected_files = EmptyDict]
    ELSE [d EXCEPT !.selected_files = selected, !.plot_btn = (selected # EmptyDict)]

\* _on_loading_finished, lines 704-707
OnLoadingFinished(d) == [d EXCEPT !.plot_btn = TRUE, !.scan_btn = TRUE]

\* _on_loading_error, lines 709-713
OnLoadingError(d, msg) ==
    [d EXCEPT !.plot_btn = TRUE, !.scan_btn = TRUE, !.error_msg = msg]

\* _on_loading_progress, lines 715-718
OnLoadingProgress(d, current, total) == [d EXCEPT !.progress_bar = <<current, total>>]

\* "if self.current_plot_data", lines 1641, 1653 and 1687
HasPlotData(d) == d.current_plot_data # NoData

\* lines 1658-1665: the page indicator and the two page buttons
PageWidgets(d) ==
    [d EXCEPT !.page_indicator = <<d.current_page, d.total_pages>>,
              !.prev_page_btn = (d.current_page > 1),
              !.next_page_btn = (d.current_page < d.total_pages)]

\* A page count that rounds down.
PagesNeeded_RoundedDown(num_groups, max_plots_per_page) ==
    Max(1, num_groups \div max_plots_per_page)

\* line 1657
PagesNeeded(num_groups, max_plots_per_page) ==
    Max(1, (num_groups + max_plots_per_page - 1) \div max_plots_per_page)

\* _update_total_pages, lines 1647-1665
UpdateTotalPages(d) ==
    IF ~HasPlotData(d) THEN [d EXCEPT !.total_pages = 1]
    ELSE PageWidgets([d EXCEPT !.total_pages =
                          PagesNeeded(Cardinality(d.current_plot_data.groups),
                                      d.max_plots_per_page)])

\* np.asarray(group_data['smoothed_frequencies']) has no length: run, lines
\* 79-82, found neither key in the first file and left None
SmoothedIsNone(first) == {"f_smoothed", "frequencies"} \cap first.keys = {}

\* pcolormesh(X, Y, C, shading='auto') takes X and Y as long as the columns
\* and rows of C, or both one longer
MeshFits(nx, ny, rows, cols) ==
    \/ nx = cols /\ ny = rows
    \/ nx = cols + 1 /\ ny = rows + 1

\* _plot_pdf_groups, lines 827-861, raises on the group_data of the files
\* fs loaded for the plot type loaded_for: the three keys are in every
\* group_data, lines 64-73, with None where no loader filled them, and
\* len() of line 852 takes no None; an empty array makes the loop go on to
\* the next group.
PdfGroupRaises(loaded_for, fs) ==
    IF SmoothedIsNone(fs[1]) THEN TRUE
    ELSE IF Len(FirstSmoothed(fs[1])) = 0 THEN FALSE
    ELSE IF loaded_for # "PDF" THEN TRUE
    ELSE IF Len(fs[1].psd_db_range) = 0 THEN FALSE
    ELSE ~MeshFits(Len(FirstSmoothed(fs[1])), Len(fs[1].psd_db_range),
                   Len(fs[1].psd_distribution[1]), Len(fs[1].psd_distribution))

\* _plot_psd_time_frequency_groups, lines 1129-1154: times is empty unless
\* _load_timefreq_data got to its end with arrays, and the loop then goes on
\* to the next group; psd_values is a row per file, or an array of arrays
\* where the files gave arrays of different lengths
TimefreqGroupRaises(loaded_for, fs) ==
    LET with == {i \in DOMAIN fs : HasPsd(fs[i])} IN
    IF loaded_for # "PSD Time-Frequency" \/ with = {} THEN FALSE
    ELSE IF SmoothedIsNone(fs[1]) THEN TRUE
    ELSE IF Len(FirstSmoothed(fs[1])) = 0 THEN FALSE
    ELSE \/ \E i, j \in with : TimefreqLen(fs[i]) # TimefreqLen(fs[j])
         \/ ~MeshFits(Len(fs), Len(FirstSmoothed(fs[1])), TimefreqLen(fs[1]), Len(fs))

\* The plot function of plot_type raises on a group.  _plot_psd_lines_groups,
\* lines 973-1041, passes over a group without 'psd_lines' and plots lines
\* that _load_psd_line_data has cut to the length of the frequencies.
PlotGroupRaises(plot_type, loaded_for, fs) ==
    IF plot_type = "PDF" THEN PdfGroupRaises(loaded_for, fs)
    ELSE IF plot_type = "PSD" THEN FALSE
    ELSE TimefreqGroupRaises(loaded_for, fs)

\* list(groups_data.items()): the keys of the result in insertion order
DataKeys(data) == SelectSeq(Keys(data.files), LAMBDA g : g \in data.groups)

\* plot_current_page, lines 1685-1703, and the plot function it calls
\* (lines 786-927, 929-1093, 1095-1207): the groups start_idx to end_idx of
\* the result are plotted and canvas.draw() brings them to the canvas.  With
\* no group on the page the function returns before that, and an exception
\* on a group ends it in its except clause, which shows a message box: the
\* canvas then keeps what was drawn last.
PlotCurrentPage(d) ==
    IF ~HasPlotData(d) THEN d
    ELSE LET data      == d.current_plot_data
             keys      == DataKeys(data)
             start_idx == (d.current_page - 1) * d.max_plots_per_page
             end_idx   == Min(start_idx + d.max_plots_per_page, Len(keys))
         IN  IF /\ start_idx < end_idx
                /\ \A i \in (start_idx + 1)..end_idx :
                      ~PlotGroupRaises(d.plot_type, data.plot_type, data.files[keys[i]])
             THEN [PageWidgets(d) EXCEPT !.shown = <<d.plot_type, start_idx, end_idx>>]
             ELSE PageWidgets(d)

\* _on_data_loaded, lines 720-756
OnDataLoaded(d, data) ==
    IF data.groups = {} THEN d
    ELSE PlotCurrentPage([UpdateTotalPages([d EXCEPT !.current_plot_data = data])
                             EXCEPT !.current_page = 1])

\* _on_grid_changed, lines 1623-1645, after the combo box took its new text
OnGridChanged(d) ==
    IF ~ParseInt(d.row_combo).ok THEN d
    ELSE IF ~ParseInt(d.col_combo).ok THEN [d EXCEPT !.rows = ParseInt(d.row_combo).value]
    ELSE LET g == [d EXCEPT !.rows = ParseInt(d.row_combo).value,
                            !.cols = ParseInt(d.col_combo).value,
                            !.max_plots_per_page =
                                ParseInt(d.row_combo).value * ParseInt(d.col_combo).value,
                            !.current_page = 1]
         IN  IF HasPlotData(g) THEN PlotCurrentPage(UpdateTotalPages(g)) ELSE g

\* _on_prev_page, lines 1667-1674
OnPrevPage(d) ==
    IF d.current_page > 1
    THEN PlotCurrentPage([d EXCEPT !.current_page = d.current_page - 1])
    ELSE d

\* _on_next_page, lines 1676-1683
OnNextPage(d) ==
    IF d.current_page < d.total_pages
    THEN PlotCurrentPage([d EXCEPT !.current_page = d.current_page + 1])
    ELSE d

\* closeEvent, lines 1599-1621, as far as the GUI thread gets without
\* waiting.  With the thread of loading_worker running, line 1605, it calls
\* terminate() and then wait(), lines 1610-1611, and stays there until that
\* thread has ended; otherwise it runs to its end.
CloseEvent(s) ==
    IF s.dlg.loading_worker # 0 /\ IsRunning(s.workers[s.dlg.loading_worker])
    THEN Gui([s.dlg EXCEPT !.closing = TRUE], s.workers)
    ELSE Gui([s.dlg EXCEPT !.closed = TRUE], s.workers)

\* The slot a queued signal runs in the dialog
Handle(d, sig) ==
    IF sig.name = "finished" THEN OnLoadingFinished(d)
    ELSE IF sig.name = "error" THEN OnLoadingError(d, sig.msg)
    ELSE IF sig.name = "progress" THEN OnLoadingProgress(d, sig.current, sig.total)
    ELSE OnDataLoaded(d, sig.data)

\* What scan_files has selected in the runs with the plot requests: one
\* group of two files of which the second holds no PSD array and no
\* psd_db_range (the group loads for "PDF" and "PSD" and fails for "PSD
\* Time-Frequency").
PlotSelections ==
    { ("g1" :> <<ArtA, ArtNoRange>>) }

\* What scan_files selects in the runs with the scans: nothing, or a group
\* that loads and one whose file cannot be read.
LoadSelections ==
    { EmptyDict, ("g1" :> <<ArtA>>) @@ ("g2" :> <<ArtCorrupt>>) }

\* What scan_files selects in the runs with the pages: nothing, one group
\* whose file cannot be read, or three groups.
PageSelections ==
    { EmptyDict,
      ("g1" :> <<ArtCorrupt>>),
      ("g1" :> <<ArtA>>) @@ ("g2" :> <<ArtA, ArtB>>) @@ ("g3" :> <<ArtNoSmoothed>>) }

\* The dialog as __init__ leaves it
DialogIdle ==
    /\ dlg = NewDialog
    /\ workers = <<>>
    /\ events = <<>>

\* The dialog once scan_files has run on a checked tree
DialogStart ==
    /\ dlg \in {ScanFilesDone(NewDialog, TRUE, selected) : selected \in PlotSelections}
    /\ workers = <<>>
    /\ events = <<>>

\* What a slot of the dialog leaves behind when the user sets it off
Slot(s) ==
    /\ ~dlg.closing /\ ~dlg.closed
    /\ Len(s.workers) <= MaxPlots
    /\ dlg' = s.dlg
    /\ workers' = s.workers
    /\ UNCHANGED <<events, nonDialogVars>>

\* a click on the Plot button, line 581
ClickPlot ==
    /\ dlg.plot_btn
    /\ Slot(Plot(Gui(dlg, workers)))

\* another entry of plot_type_combo is chosen, line 487
ChangePlotType(plot_type) ==
    /\ plot_type # dlg.plot_type
    /\ Slot(OnPlotTypeChanged(Gui(dlg, workers), plot_type))

\* another entry of colormap_combo is chosen, line 505
ChangeColormap(colormap) ==
    /\ dlg.colormap_visible
    /\ colormap # dlg.colormap
    /\ Slot(OnColormapChanged(Gui(dlg, workers), colormap))

\* group_length_edit is given another text, line 539
TypeGroupLength(text) ==
    /\ dlg.group_length_visible
    /\ text # dlg.group_length_edit
    /\ Slot(OnGroupLengthChanged(
                Gui([dlg EXCEPT !.group_length_edit = text], workers), text))

\* another entry of group_length_unit is chosen, line 544
ChangeGroupUnit(unit) ==
    /\ dlg.group_length_visible
    /\ unit # dlg.group_length_unit
    /\ Slot(OnGroupUnitChanged(
                Gui([dlg EXCEPT !.group_length_unit = unit], workers), unit))

\* a click on the Scan button, line 579
ClickScan(checked, selected) ==
    /\ dlg.scan_btn
    /\ Slot(Gui(ScanFilesDone(dlg, checked, selected), workers))

\* the check marks of the tree or of the component boxes are changed:
\* _on_item_changed, _select_all_components, _deselect_all_components and
\* _select_component_for_all end with scan_files(), lines 1354, 1408, 1430
\* and 1791
ChangeChecked(checked, selected) ==
    Slot(Gui(ScanFilesDone(dlg, checked, selected), workers))

\* the dialog is closed: closeEvent up to where it waits or returns
Close == Slot(CloseEvent(Gui(dlg, workers)))

\* terminate(), line 1610, takes effect: the thread of the worker ends where
\* it is.  Qt ends it at once or later, so the worker can go on with its
\* run in between.
Terminate(i) ==
    /\ dlg.closing /\ i = dlg.loading_worker
    /\ IsRunning(workers[i])
    /\ workers' = [workers EXCEPT ![i].pc = "terminated"]
    /\ UNCHANGED <<dlg, events, nonDialogVars>>

\* wait(), line 1611, returns once the thread has ended, killed or at the
\* end of its run, and closeEvent goes on to its end, lines 1616-1621
CloseReturn ==
    /\ dlg.closing
    /\ ~IsRunning(workers[dlg.loading_worker])
    /\ dlg' = [dlg EXCEPT !.closing = FALSE, !.closed = TRUE]
    /\ UNCHANGED <<workers, events, nonDialogVars>>

\* the thread of worker i runs run() up to its next signal
WorkerStep(i, fault, strict) ==
    /\ IsRunning(workers[i])
    /\ \E r \in {RunStep(workers[i], fault, strict)} :
          /\ workers' = [workers EXCEPT ![i] = r.worker]
          /\ events' = events \o r.emitted
    /\ UNCHANGED <<dlg, nonDialogVars>>

\* the event loop of the dialog runs the slot of the oldest queued signal;
\* it does not run while the GUI thread waits in closeEvent
Deliver ==
    /\ ~dlg.closing
    /\ events # <<>>
    /\ dlg' = Handle(dlg, Head(events))
    /\ events' = Tail(events)
    /\ UNCHANGED <<workers, nonDialogVars>>

\* another entry of row_combo or col_combo is chosen, lines 515 and 521
ChangeRows(text) ==
    /\ text # dlg.row_combo
    /\ Slot(Gui(OnGridChanged([dlg EXCEPT !.row_combo = text]), workers))

ChangeCols(text) ==
    /\ text # dlg.col_combo
    /\ Slot(Gui(OnGridChanged([dlg EXCEPT !.col_combo = text]), workers))

\* clicks on the page buttons, lines 453 and 460
ClickPrevPage ==
    /\ dlg.prev_page_btn
    /\ Slot(Gui(OnPrevPage(dlg), workers))

ClickNextPage ==
    /\ dlg.next_page_btn
    /\ Slot(Gui(OnNextPage(dlg), workers))

\* the plot requests and the workers
PlotNext ==
    \/ ClickPlot
    \/ \E plot_type \in PlotTypes : ChangePlotType(plot_type)
    \/ \E colormap \in Colormaps : ChangeColormap(colormap)
    \/ \E text \in GroupLengthTexts : TypeGroupLength(text)
    \/ \E unit \in GroupUnits : ChangeGroupUnit(unit)
    \/ \E i \in DOMAIN workers, strict \in BOOLEAN : WorkerStep(i, FALSE, strict)
    \/ Deliver

\* the scans, the plot requests and the ends a run can take
LoadNext ==
    \/ \E checked \in BOOLEAN, selected \in LoadSelections : ClickScan(checked, selected)
    \/ \E checked \in BOOLEAN, selected \in LoadSelections :
          ChangeChecked(checked, selected)
    \/ ClickPlot
    \/ Close
    \/ \E i \in DOMAIN workers : Terminate(i)
    \/ CloseReturn
    \/ \E i \in DOMAIN workers, fault \in BOOLEAN, strict \in BOOLEAN :
          WorkerStep(i, fault, strict)
    \/ Deliver

\* the pages of the plots
PagesNext ==
    \/ ClickPlot
    \/ \E checked \in BOOLEAN, selected \in PageSelections : ClickScan(checked, selected)
    \/ \E i \in DOMAIN workers, strict \in BOOLEAN : WorkerStep(i, FALSE, strict)
    \/ Deliver
    \/ \E text \in GridItems : ChangeRows(text)
    \/ \E text \in GridItems : ChangeCols(text)
    \/ ClickPrevPage
    \/ ClickNextPage

(***************************************************************************)
(* ========================  SPECIFICATIONS  ============================= *)
(* Each specification starts one subsystem and leaves the others idle.     *)
(***************************************************************************)
AggIdle ==
    /\ files = EmptyDict
    /\ pc = "idle"
    /\ gi = 1
    /\ result_data = EmptyDict
    /\ total_files = 0
    /\ processed_files = 0
    /\ signals = <<>>
    /\ log = <<>>

ScanIdle ==
    /\ tree = EmptyDict
    /\ checked_paths = <<>>
    /\ start_time = Time1
    /\ end_time = Time1
    /\ selected_files = EmptyDict
    /\ plot_btn = FALSE
    /\ scanned = FALSE

BatchIdle ==
    /\ file_list = <<>>
    /\ settings = [idle |-> TRUE]
    /\ bpc = "idle"
    /\ bi = 1
    /\ disk = EmptyDict
    /\ bsignals = <<>>
    /\ blog = <<>>

AggInit == AggStart /\ ScanIdle /\ CalcIdle /\ BatchIdle /\ DialogIdle

SpecAgg == AggInit /\ [][AggNext]_vars

ScanInit == ScanStart /\ AggIdle /\ CalcIdle /\ BatchIdle /\ DialogIdle

SpecScan == ScanInit /\ [][ScanNext]_vars

CalcInit == CalcIdle /\ AggIdle /\ ScanIdle /\ BatchIdle /\ DialogIdle

SpecCalc == CalcInit /\ [][CalcNext]_vars

FnInit == FnStart /\ AggIdle /\ ScanIdle /\ BatchIdle /\ DialogIdle

SpecFn == FnInit /\ [][FnNext]_vars

BatchInit == BatchStart /\ AggIdle /\ ScanIdle /\ CalcIdle /\ DialogIdle

SpecBatch == BatchInit /\ [][BatchNext]_vars

PlotInit == DialogStart /\ AggIdle /\ ScanIdle /\ CalcIdle /\ BatchIdle

SpecPlot == PlotInit /\ [][PlotNext]_vars

LoadInit == DialogIdle /\ AggIdle /\ ScanIdle /\ CalcIdle /\ BatchIdle

SpecLoad == LoadInit /\ [][LoadNext]_vars

\* A thread that was started gets to run until it ends or is killed, the
\* event loop of the dialog gets to every signal queued to it, and wait()
\* returns when the thread it waits for has ended.
SpecLoadFair ==
    /\ SpecLoad
    /\ WF_vars(\/ \E i \in DOMAIN workers, fault \in BOOLEAN, strict \in BOOLEAN :
                     WorkerStep(i, fault, strict)
               \/ \E i \in DOMAIN workers : Terminate(i))
    /\ WF_vars(Deliver)
    /\ WF_vars(CloseReturn)

SpecPages == LoadInit /\ [][PagesNext]_vars

(***************************************************************************)
(* ==========================  CLAIMS C1 - C5  =========================== *)
(* The aggregation claims, checked under SpecAgg.                          *)
(***************************************************************************)
\* A quotient <<n, d>> that is not a number (0/0) or not finite (n/0).
NotFinite(q) == q[2] = 0

\* A row of quotients over one common divisor sums to exactly 1.
RowSumsToOne(row) ==
    /\ \A j \in DOMAIN row : ~NotFinite(row[j]) /\ row[j][2] = row[1][2]
    /\ SumSeq([j \in DOMAIN row |-> row[j][1]]) = row[1][2]

\* Every entry of the row is the number 0.
RowAllZero(row) == \A j \in DOMAIN row : ~NotFinite(row[j]) /\ row[j][1] = 0

\* C1: in every group the worker has aggregated, each frequency row of
\* probability_distribution sums to 1 when the row's total count in
\* total_distribution is non-zero, and is all zeros (never NaN) when the
\* row's total count is zero.
C1_RowsNormalised ==
    \A g \in DOMAIN result_data :
        LET gd == result_data[g] IN
        \A i \in DOMAIN gd.total_distribution :
            IF SumSeq(gd.total_distribution[i]) # 0
            THEN RowSumsToOne(gd.probability_distribution[i])
            ELSE RowAllZero(gd.probability_distribution[i])

\* C1 witness: an aggregated group with a row of non-zero total and a row
\* of zero total.
C1_Witness ==
    \E g \in DOMAIN result_data :
        LET t == result_data[g].total_distribution IN
        /\ \E i \in DOMAIN t : SumSeq(t[i]) > 1
        /\ \E i \in DOMAIN t : SumSeq(t[i]) = 0

\* An artifact that holds every field the aggregation reads.
WellFormed(art) ==
    /\ art.loadable
    /\ "psd_distribution" \in art.keys
    /\ "psd_db_range" \in art.keys

\* The positions of the usable files of a list: the well-formed ones that
\* have the shape and the dB grid of the first well-formed one.
Usable(fs) ==
    LET wf == {i \in DOMAIN fs : WellFormed(fs[i])} IN
    IF wf = {} THEN {}
    ELSE LET f == CHOOSE i \in wf : \A k \in wf : i <= k IN
         {i \in wf : /\ Shape(fs[i].psd_distribution) = Shape(fs[f].psd_distribution)
                      /\ fs[i].psd_db_range = fs[f].psd_db_range}

\* C2 (the claim as stated): a malformed or schema-incompatible artifact at
\* any position of a group's file list, the first included, is skipped, and
\* the group's distribution is still produced from the remaining files.
C2_MalformedSkippedAnywhere ==
    pc = "done" =>
        \A g \in DOMAIN files :
            (\E i \in DOMAIN files[g] : WellFormed(files[g][i])) =>
                /\ g \in DOMAIN result_data
                /\ \A i \in DOMAIN files[g] :
                       ~WellFormed(files[g][i]) => i \notin Range(result_data[g].summed)
                /\ \E i \in DOMAIN files[g] : i \in Range(result_data[g].summed)

MatAdd(a, b) == [i \in DOMAIN a |-> [j \in DOMAIN a[i] |-> a[i][j] + b[i][j]]]

IndexOrders(n) == {p \in [1..n -> 1..n] : \A i, j \in 1..n : p[i] = p[j] => i = j}

Permute(fs, p) == [i \in DOMAIN fs |-> fs[p[i]]]

\* The total of a list cut into the consecutive parts 1..a, a+1..b, b+1..n
\* (b = n: two parts), each aggregated on its own, the partial totals added.
TotalOfParts(fs, a, b) ==
    LET ta == LoadPdfData(SubSeq(fs, 1, a)).total_distribution
        tb == LoadPdfData(SubSeq(fs, a + 1, b)).total_distribution
    IN  IF b = Len(fs) THEN MatAdd(ta, tb)
        ELSE MatAdd(MatAdd(ta, tb),
                    LoadPdfData(SubSeq(fs, b + 1, Len(fs))).total_distribution)

\* All files of the list are well-formed and share shape and dB grid.
SameGrid(fs) == Usable(fs) = DOMAIN fs

\* C3: aggregation is associative and order-independent: for files of one
\* shape and dB grid, the total (and the probability derived from it) of
\* the whole list equals the sum of the totals of the parts of any
\* partition of the list, taken in any order.
C3_Associative ==
    \A g \in DOMAIN result_data :
        LET fs == files[g]
            gd == result_data[g]
        IN  SameGrid(fs) =>
              \A p \in IndexOrders(Len(fs)) :
                 /\ LoadPdfData(Permute(fs, p)).total_distribution = gd.total_distribution
                 /\ \A a \in 1..(Len(fs) - 1) : \A b \in (a + 1)..Len(fs) :
                       /\ TotalOfParts(Permute(fs, p), a, b) = gd.total_distribution
                       /\ Probability(TotalOfParts(Permute(fs, p), a, b))
                              = gd.probability_distribution

\* C3 witness: an aggregated group of three files of one grid, not all the
\* same.
C3_Witness ==
    \E g \in DOMAIN result_data :
        /\ Len(files[g]) >= 3
        /\ SameGrid(files[g])
        /\ \E i, j \in DOMAIN files[g] : files[g][i] # files[g][j]

\* C4 (the claim as stated): only distributions that have the shape and
\* the psd_db_range of the group are added into total_distribution.
C4_OnlySameGridSummed ==
    \A g \in DOMAIN result_data :
        LET gd == result_data[g] IN
        \A k \in DOMAIN gd.summed :
            LET art == files[g][gd.summed[k]] IN
            /\ Shape(art.psd_distribution) = Shape(gd.total_distribution)
            /\ "psd_db_range" \in art.keys
            /\ art.psd_db_range = gd.psd_db_range

\* C5 (the claim as stated): a group none of whose artifacts is usable is
\* not dropped and nothing is raised: it is in the result with an all-zero
\* probability distribution, and a warning is on record.
C5_NoUsableGivesZeros ==
    pc = "done" =>
        \A g \in DOMAIN files :
            (files[g] # <<>> /\ Usable(files[g]) = {}) =>
                /\ g \in DOMAIN result_data
                /\ \A i \in DOMAIN result_data[g].probability_distribution :
                       RowAllZero(result_data[g].probability_distribution[i])
                /\ \E k \in DOMAIN log : log[k].group = g /\ log[k].level = "warning"

(***************************************************************************)
(* ==============================  CLAIM C6  ============================= *)
(* The time-window claim, checked under SpecScan.                          *)
(***************************************************************************)
\* A directory entry that is a PSD artifact: a file named *_psd.npz
IsArtifact(entry) == ~entry.isdir /\ EndsWith(entry.name, PSD_FILE_SUFFIX)

\* The timestamp of the name, as the aggregation reads it, lies in the
\* window of the two widgets, both ends included.
StampInWindow(name) ==
    LET t == ExtractFileTime(name) IN
    t.ok /\ DtLeq(start_time, t.dt) /\ DtLeq(t.dt, end_time)

\* The file is in the list scan_files kept for the group.
Selected(q, f) == q \in DOMAIN selected_files /\ f \in Range(selected_files[q])

\* C6: after a scan, a PSD artifact of a scanned directory is in its
\* group's list if and only if the timestamp parsed from its name lies in
\* start_time <= t <= end_time; an artifact whose name holds no parseable
\* timestamp is never in a list, and nothing else is.
C6_IncludedIffInWindow ==
    (scanned /\ checked_paths # <<>>) =>
        /\ \A q \in Range(checked_paths) :
              tree[q].exists =>
                \A n \in DOMAIN DirsToCheck(tree[q]) :
                    LET d == DirsToCheck(tree[q])[n] IN
                    \A e \in Range(d.listing) :
                        IsArtifact(e) => (Selected(q, FilePath(d.dir, e)) <=> StampInWindow(e.name))
        /\ \A q \in DOMAIN selected_files :
              \A f \in Range(selected_files[q]) :
                  /\ q \in Range(checked_paths)
                  /\ ExtractFileTime(f.name).ok
                  /\ StampInWindow(f.name)

\* C6 witness: a scan that kept an artifact stamped exactly end_time and
\* left out an artifact whose name holds no timestamp.
C6_Witness ==
    /\ scanned
    /\ \E q \in DOMAIN selected_files :
          /\ \E f \in Range(selected_files[q]) : ExtractFileTime(f.name).dt = end_time
          /\ \E n \in DOMAIN DirsToCheck(tree[q]) :
                \E e \in Range(DirsToCheck(tree[q])[n].listing) :
                    IsArtifact(e) /\ ~ExtractFileTime(e.name).ok

(***************************************************************************)
(* ===========================  CLAIMS C7 - C10  ========================= *)
(* The calculator claims, checked under SpecCalc.                          *)
(***************************************************************************)
\* The step is a call of the operation op.
Called(op) == ops' = ops + 1 /\ outcome'.op = op

\* C7: calculate_psd on something that is not a numpy array, or on an
\* empty array, fails with the error for that input and returns nothing,
\* and every stored result field is what it was before the call.
C7_BadInputLeavesResults ==
    [][(Called("calculate_psd") /\ (~outcome'.arg.is_ndarray \/ outcome'.arg.size = 0)) =>
          /\ outcome'.raised
          /\ outcome'.error = (IF ~outcome'.arg.is_ndarray
                               THEN "Input data must be a numpy array"
                               ELSE "Input data is empty")
          /\ outcome'.returned = <<>>
          /\ ResultFields(calc') = ResultFields(calc)]_vars

\* C7 witness: an instance holding the results of an earlier call has just
\* refused an empty array.
C7_Witness ==
    /\ constructed
    /\ outcome.op = "calculate_psd"
    /\ outcome.error = "Input data is empty"
    /\ "psd_distribution" \in calc.assigned

\* C8 (the claim as stated): an instrument type other than 0 and 1, an
\* unknown filter kind and an unknown window name are each rejected by the
\* operation that sets them: the constructor or the setter raises.
C8_RejectedWhenSet ==
    [][(\/ /\ ~constructed /\ constructed'
            /\ outcome'.arg \notin {0, 1}
        \/ /\ Called("filter_type")
            /\ outcome'.arg \notin {"High Pass", "Band Pass"}
        \/ /\ Called("window_type")
            /\ outcome'.arg \notin {"hann", "hamming", "blackman", "bartlett",
                                    "flattop", "boxcar"})
       => outcome'.raised]_vars

\* C9: a calculate_psd call on an instance whose instrument_type is
\* neither 0 nor 1 fails with an error and returns no (frequencies, psd).
C9_UnknownInstrumentFails ==
    (constructed /\ outcome.op = "calculate_psd" /\ calc.instrument_type \notin {0, 1}) =>
        outcome.raised /\ outcome.returned = <<>>

\* C9 witness: a call with a usable segment got as far as the instrument
\* conversion and failed there.
C9_Witness ==
    /\ constructed
    /\ outcome.op = "calculate_psd"
    /\ outcome.arg.is_ndarray /\ outcome.arg.size > 0
    /\ calc.instrument_type \notin {0, 1}
    /\ outcome.error = "Invalid instrument type"

\* C10 (the claim as stated): assigning an overlap fraction outside 0..1
\* is rejected at the assignment and the previous overlap is kept.
C10_OverlapRangeChecked ==
    [][(Called("overlap") /\ (outcome'.arg < 0 \/ outcome'.arg > 100)) =>
          outcome'.raised /\ calc'.overlap = calc.overlap]_vars

(***************************************************************************)
(* C11: the fixed dB grid of the saved artifacts                           *)
(***************************************************************************)
\* The artifacts process_file has written so far
SavedArtifacts == {disk[q] : q \in DOMAIN disk}

GridOf(a, n) ==
    /\ Len(a.psd_db_range) = n
    /\ a.psd_db_range[1] = PSD_DB_START
    /\ \A i \in 1..(n - 1) : a.psd_db_range[i + 1] = a.psd_db_range[i] + 1
    /\ Len(a.psd_distribution) = Len(a.f_smoothed)
    /\ \A i \in DOMAIN a.psd_distribution : Len(a.psd_distribution[i]) = n

\* C11 (as the code has it): every saved PSD result uses the same fixed grid
\* of exactly 150 one-dB bins starting at -200 dB: psd_db_range has 150
\* entries, -200 to -51 in steps of one, every row of psd_distribution has
\* 150 columns, and psd_distribution has one row per smoothed frequency.
C11_GridOf150Bins == \A a \in SavedArtifacts : GridOf(a, 150)

\* two artifacts are on disk, of different numbers of smoothed frequencies
C11_Witness ==
    \E a, b \in SavedArtifacts :
        /\ Len(a.f_smoothed) > Len(b.f_smoothed) /\ Len(b.f_smoothed) > 1
        /\ GridOf(a, 150) /\ GridOf(b, 150)

\* C11 as stated: the grid has exactly 149 bins
C11_GridOf149Bins == \A a \in SavedArtifacts : GridOf(a, 149)

(***************************************************************************)
(* C12 - C14: _smooth_psd, seen from a call of it: the arguments are in    *)
(* outcome.arg, the histogram rows in calc.psd_distribution and the        *)
(* returned pair in outcome.returned.  Row i is that of period bin         *)
(* Len(rows) - i.                                                          *)
(***************************************************************************)
SmoothCalled == outcome.op = "_smooth_psd" /\ ~outcome.raised

\* the points (indices into the arguments) line 176 selects for bin j
PointsIn(a, j) ==
    {n \in DOMAIN a.ks : InBin(a.nperseg, a.ks[Len(a.ks)], j, a.ks[n])}

\* v (thousandths of a dB) lies in [k, k+1) for the k of column b
InHalfOpenDb(v, b) ==
    (PSD_DB_START + b - 1) * 1000 <= v /\ v < (PSD_DB_START + b) * 1000

\* the same, and the last column also takes its right edge, -50 dB
InClosedLastDb(v, b) ==
    \/ InHalfOpenDb(v, b)
    \/ b = Len(PSD_DB_RANGE) - 1 /\ v = (PSD_DB_START + b) * 1000

\* C12 (as the code has it): the histogram of a period bin counts a selected
\* point's dB value v in exactly one column, that of the 1-dB bin [k, k+1)
\* containing it, if and only if -200 <= v <= -50, a value of exactly
\* -50 dB being counted in the last column, [-51, -50]; a value above
\* -50 dB or below -200 dB is counted in no column.
C12_CountedIffInClosedRange ==
    SmoothCalled =>
        LET a == outcome.arg
            rows == calc.psd_distribution
        IN  \A i \in DOMAIN rows : \A b \in DOMAIN rows[i] :
                rows[i][b] = Cardinality({n \in PointsIn(a, Len(rows) - i) :
                                             InClosedLastDb(a.psd[n], b)})

\* a bin was smoothed that holds a point at exactly -50 dB, counted in the
\* last column, and a point just above -50 dB, counted nowhere
C12_Witness ==
    /\ SmoothCalled
    /\ \E i \in DOMAIN calc.psd_distribution :
           LET vs == {outcome.arg.psd[n] :
                         n \in PointsIn(outcome.arg, Len(calc.psd_distribution) - i)}
           IN  /\ {-50000, -49999} \subseteq vs
               /\ calc.psd_distribution[i][Len(PSD_DB_RANGE) - 1] = 1

\* C12 as stated: a value is counted if and only if -200 <= v < -50, a value
\* of exactly -50 dB in no bin
C12_CountedIffInHalfOpenRange ==
    SmoothCalled =>
        LET a == outcome.arg
            rows == calc.psd_distribution
        IN  \A i \in DOMAIN rows : \A b \in DOMAIN rows[i] :
                rows[i][b] = Cardinality({n \in PointsIn(a, Len(rows) - i) :
                                             InHalfOpenDb(a.psd[n], b)})

\* The period of point n against the edges of bin j, in exact arithmetic:
\* period / left and period / right are (kmax / k) * 2^(-(j -+ 4)/8).
AboveLeft(a, j, n) == CmpPow2(j - 4, Pow8(a.ks[n]), Pow8(a.ks[Len(a.ks)])) < 0

BelowLeft(a, j, n) == CmpPow2(j - 4, Pow8(a.ks[n]), Pow8(a.ks[Len(a.ks)])) > 0

AboveRight(a, j, n) == CmpPow2(j + 4, Pow8(a.ks[n]), Pow8(a.ks[Len(a.ks)])) < 0

\* left < period <= right
Inside(a, j) == {n \in DOMAIN a.ks : AboveLeft(a, j, n) /\ ~AboveRight(a, j, n)}

\* period = left up to the rounding of the edge
OnLeftEdge(a, j) ==
    {n \in DOMAIN a.ks : ~AboveLeft(a, j, n) /\ ~BelowLeft(a, j, n)}

SumOver(a, P) ==
    LET sel == SelectSeq([n \in DOMAIN a.ks |-> n], LAMBDA n : n \in P)
    IN  SumSeq([m \in DOMAIN sel |-> a.psd[sel[m]]])

\* the smoothed value and the histogram row of a bin made of the points P
BuiltFrom(a, P, mean, row) ==
    IF P = {}
    THEN mean = NaN /\ \A b \in DOMAIN row : row[b] = 0
    ELSE /\ mean = <<SumOver(a, P), Cardinality(P)>>
         /\ \A b \in DOMAIN row :
                row[b] = Cardinality({n \in P : InClosedLastDb(a.psd[n], b)})

\* C13: for each period bin [left, right] the points selected are exactly
\* those with left <= period <= right (a period that equals left up to
\* rounding may fall on either side); when no point is selected the
\* smoothed value is NaN and the bin's histogram row is all zeros, otherwise
\* the smoothed value and the row are built from exactly the selected
\* points.
C13_BinsBuiltFromSelectedPoints ==
    SmoothCalled =>
        LET a == outcome.arg
            rows == calc.psd_distribution
            means == outcome.returned[2]
        IN  \A i \in DOMAIN rows :
                \E T \in SUBSET OnLeftEdge(a, Len(rows) - i) :
                    BuiltFrom(a, Inside(a, Len(rows) - i) \cup T, means[i], rows[i])

\* a call left one bin without any point and another with several
C13_Witness ==
    /\ SmoothCalled
    /\ \E i, m \in DOMAIN calc.psd_distribution :
           /\ Inside(outcome.arg, Len(calc.psd_distribution) - i) = {}
           /\ OnLeftEdge(outcome.arg, Len(calc.psd_distribution) - i) = {}
           /\ outcome.returned[2][i] = NaN
           /\ Cardinality(Inside(outcome.arg, Len(calc.psd_distribution) - m)) >= 2
           /\ outcome.returned[2][m][2] >= 2

\* f < g for smoothed frequencies <<n, d, j>> = (n / d) * 2^(-j/8) over the
\* same n / d
SmoothedLess(f, g) == f[1] * g[2] = g[1] * f[2] /\ f[1] > 0 /\ f[2] > 0 /\ f[3] > g[3]

\* C14: after _smooth_psd, smoothed_frequencies is strictly ascending and
\* the three outputs stay aligned: for every index i, smoothed_psd[i] and
\* psd_distribution[i] are those of the period bin whose centre is
\* 1 / smoothed_frequencies[i].
C14_AscendingAndAligned ==
    SmoothCalled =>
        LET a == outcome.arg
            freqs == outcome.returned[1]
            means == outcome.returned[2]
            rows == calc.psd_distribution
        IN  /\ Len(freqs) = Len(means) /\ Len(means) = Len(rows)
            /\ \A i \in 1..(Len(freqs) - 1) : SmoothedLess(freqs[i], freqs[i + 1])
            /\ freqs[Len(freqs)] = <<a.ks[Len(a.ks)] * calc.sample_rate, a.nperseg, 0>>
            /\ \A i \in DOMAIN freqs :
                   \E T \in SUBSET OnLeftEdge(a, freqs[i][3]) :
                       BuiltFrom(a, Inside(a, freqs[i][3]) \cup T, means[i], rows[i])

\* a call whose bins differ: the first smoothed frequency has points of
\* its own, the last has others, and some bin between them has none
C14_Witness ==
    /\ SmoothCalled
    /\ Len(outcome.returned[1]) >= 3
    /\ outcome.returned[2][1] # NaN
    /\ outcome.returned[2][Len(outcome.returned[2])] # NaN
    /\ outcome.returned[2][1] # outcome.returned[2][Len(outcome.returned[2])]
    /\ calc.psd_distribution[1] # calc.psd_distribution[Len(calc.psd_distribution)]
    /\ \E i \in DOMAIN outcome.returned[2] : outcome.returned[2][i] = NaN

(***************************************************************************)
(* C15: the number of bins of _setup_period_binning                        *)
(***************************************************************************)
\* the least k >= 0 with min_period * step_factor^k >= max_period, for the
\* periods of the bins a.kmax and a.kmin: 2^k * kmin^8 >= kmax^8
RECURSIVE LeastStep(_, _)
LeastStep(a, k) ==
    IF CmpPow2(k, Pow8(a.kmin), Pow8(a.kmax)) >= 0 THEN k ELSE LeastStep(a, k + 1)

\* C15: _setup_period_binning returns at least one bin, and exactly 1 + k
\* bins for the least k >= 0 with min_period * step_factor^k >= max_period;
\* a range with min_period = max_period yields exactly one bin.
C15_OnePlusLeastStepBins ==
    outcome.op = "_setup_period_binning" =>
        /\ Len(outcome.returned[3]) >= 1
        /\ Len(outcome.returned[3]) = 1 + LeastStep(outcome.arg, 0)
        /\ outcome.arg.kmin = outcome.arg.kmax => Len(outcome.returned[3]) = 1

(***************************************************************************)
(* C16 - C18: calculate_psd, seen from a call of it on the instance        *)
(***************************************************************************)
CalculateReturned == constructed /\ outcome.op = "calculate_psd" /\ ~outcome.raised

\* 10 * log10 of the stored power value psd_v[n], the value that left the
\* clip and the response removal
PowerDb(c, n) ==
    c.psd_v[n].level
    - (IF c.psd_v[n].response_removed THEN ResponseDb(c.frequencies[n]) ELSE 0)

\* C16: the instrument-type conversion is applied once and only for
\* velocity: with instrument_type 0 every retained power value is
\* multiplied by (2 * pi * f)^2 of its own frequency f (in dB: raised by
\* 10 * log10 of it), and with instrument_type 1 the values that reach the
\* dB conversion are those that left the clip / response removal.
C16_ConvertedOnceForVelocityOnly ==
    CalculateReturned =>
        /\ Len(calc.psd) = Len(calc.psd_v)
        /\ \A n \in DOMAIN calc.psd :
               calc.psd[n] - PowerDb(calc, n) =
                   (IF calc.instrument_type = 0 THEN OmegaDb(calc.frequencies[n]) ELSE 0)

\* a velocity instance returned a spectrum with the response removed
C16_Witness ==
    /\ CalculateReturned
    /\ calc.instrument_type = 0
    /\ calc.response_removal_enabled
    /\ Len(calc.psd) >= 3
    /\ \E n \in DOMAIN calc.psd :
           OmegaDb(calc.frequencies[n]) # 0 /\ ResponseDb(calc.frequencies[n]) # 0

\* C17 (the claim as stated): whenever psd is set, after any sequence of
\* successful and failed calculate_psd calls, psd is as long as frequencies
\* and smoothed_psd as long as smoothed_frequencies.
C17_PsdAsLongAsFrequencies ==
    (constructed /\ "psd" \in calc.assigned) =>
        /\ Len(calc.psd) = Len(calc.frequencies)
        /\ "smoothed_psd" \in calc.assigned =>
               Len(calc.smoothed_psd) = Len(calc.smoothed_frequencies)

\* The instance with its configuration and no stored result, as __init__
\* leaves the result fields
WithoutResults(c) ==
    [c EXCEPT !.assigned = {}, !.frequencies = <<>>, !.psd = <<>>, !.psd_v = <<>>,
              !.smoothed_frequencies = <<>>, !.smoothed_psd = <<>>,
              !.psd_distribution = <<>>]

SameCallOnFresh(c, data, r) ==
    /\ outcome'.raised = r.raised
    /\ outcome'.error = r.error
    /\ outcome'.returned = r.returned
    /\ ResultFields(calc') = ResultFields(r.calc)

\* C18 (the claim as stated): calculate_psd keeps nothing from one call to
\* the next but the results it overwrites: a call raises or returns what
\* the same call, with the same data and configuration, does on an instance
\* that holds no result, and leaves every result field as that call leaves
\* it; so two calls with the same data and configuration agree in all
\* result fields, whatever was called in between.
C18_StatelessAcrossCalls ==
    [][Called("calculate_psd") =>
          SameCallOnFresh(calc, outcome'.arg,
                          CalculatePsd(WithoutResults(calc), outcome'.arg))]_vars

(***************************************************************************)
(* C19: the batch run attempts every file                                  *)
(***************************************************************************)
\* the files process_file was entered for, in the order of the log
Attempted ==
    LET e == SelectSeq(blog, LAMBDA x : x.text = "Processing file")
    IN  [i \in DOMAIN e |-> e[i].file]

\* C19: in a batch run every file of file_list is attempted exactly once,
\* in list order, whatever became of the files before it: the files
\* attempted so far are the first ones of the list, each once and in list
\* order, a file that failed has an error in the log, and the run ends
\* only when the whole list has been gone through.
C19_EveryFileAttemptedInOrder ==
    file_list # <<>> =>
        /\ Attempted = SubSeq(file_list, 1, bi - 1)
        /\ \A i \in 1..(bi - 1) :
               ~ProcessFile(settings, file_list[i]).ok =>
                   \E n \in DOMAIN blog :
                       blog[n].level = "error" /\ blog[n].file = file_list[i]
        /\ bpc = "done" => bi = Len(file_list) + 1

\* a run is over in which the first file failed and the second was saved
C19_Witness ==
    /\ bpc = "done"
    /\ Len(file_list) = 2
    /\ Attempted = file_list
    /\ ~ProcessFile(settings, file_list[1]).ok
    /\ \E n \in DOMAIN blog : blog[n].level = "error" /\ blog[n].file = file_list[1]
    /\ DOMAIN disk = {OutFile(file_list[2])}

(***************************************************************************)
(* C20: get_noise_models                                                   *)
(***************************************************************************)
\* C20: get_noise_models raises to its caller, returning nothing, when the
\* noise-model file is missing or unreadable or lacks any of model_periods,
\* low_noise and high_noise; it returns the three arrays only when the file
\* holds all three, never a part of them.
C20_NoiseModelsAllOrError ==
    outcome.op = "get_noise_models" =>
        IF noise_file.exists /\ noise_file.loadable /\ NoiseKeys \subseteq noise_file.keys
        THEN /\ ~outcome.raised
             /\ outcome.returned =
                    <<noise_file.model_periods, noise_file.low_noise, noise_file.high_noise>>
        ELSE outcome.raised /\ outcome.returned = <<>>

\* the call was made on a file that holds the first two fields only
C20_Witness ==
    /\ outcome.op = "get_noise_models"
    /\ noise_file.exists /\ noise_file.loadable
    /\ noise_file.keys = {"model_periods", "low_noise"}
    /\ outcome.raised
    /\ outcome.error = "Invalid noise model file format"

(***************************************************************************)
(* C21 - C23: what a call of calculate_psd does, stage by stage            *)
(***************************************************************************)
\* the call went past the test of its input and past the filter
ReachedWelch ==
    /\ constructed /\ outcome.op = "calculate_psd"
    /\ InputError(outcome.arg) = ""
    /\ ~(calc.filter_enabled /\ FilterRaises(calc, outcome.arg))

\* C21: whenever calculate_psd returns normally, frequencies is non-empty
\* and smoothed_frequencies has at least one entry; when the clip range
\* [psd_freq_min, psd_freq_max] retains no Welch frequency the call raises
\* instead of returning an empty result.
C21_NeverReturnsEmpty ==
    /\ CalculateReturned =>
           /\ Len(outcome.returned[1]) >= 1 /\ Len(calc.frequencies) >= 1
           /\ Len(calc.smoothed_frequencies) >= 1
    /\ (/\ ReachedWelch
        /\ ~WelchRaises(Nperseg(calc, outcome.arg), Noverlap(calc, outcome.arg))
        /\ RetainedBins(calc, Nperseg(calc, outcome.arg)) = <<>>)
       => outcome.raised /\ outcome.returned = <<>>

\* a call whose clip range retained nothing has raised in the smoothing
C21_Witness ==
    /\ ReachedWelch
    /\ RetainedBins(calc, Nperseg(calc, outcome.arg)) = <<>>
    /\ calc.instrument_type \in {0, 1}
    /\ outcome.raised
    /\ outcome.error = "index 0 is out of bounds"
    /\ calc.frequencies = <<>>


\* the filter the samples have gone through when welch is called: the one
\* of filter_type at its edge when the filter is enabled, none otherwise
FilterOfEstimate(c) ==
    IF c.filter_enabled
    THEN IF c.filter_type = "High Pass"
         THEN <<"high", c.cutoff_freq[1], c.cutoff_freq[2]>>
         ELSE <<"band", c.low_freq, c.high_freq>>
    ELSE <<"none", 0, 1>>

\* the level in bin k of the Welch estimate, at the window, segment length
\* and overlap of the instance, of samples that were detrended, then
\* divided by the sensitivity, then filtered: nothing of the mean and the
\* trend is left in it, and a sensitivity s has taken 20 * log10(s) dB off
\* it (the power of samples divided by s is 1 / s^2 of theirs)
LevelOfEstimate(c, data, k) ==
    WelchTable[<<data.name, TRUE, FilterOfEstimate(c), c.window_type,
                 Nperseg(c, data), Noverlap(c, data)>>][k]
    - (IF c.sensitivity = 10 THEN 20000 ELSE 0)

\* the frequency the estimate gives bin k lies in [psd_freq_min,
\* psd_freq_max]: it is the double of k * fs / nperseg, an ulp above or
\* below it where BinFreqAbove and BinFreqBelow say so
InClipRange(c, nperseg, k) ==
    LET f   == <<k * c.sample_rate, nperseg>>
        off == IF <<nperseg, k>> \in BinFreqAbove THEN 1
               ELSE IF <<nperseg, k>> \in BinFreqBelow THEN -1 ELSE 0
    IN  /\ RatLess(c.psd_freq_min, f) \/ (RatLeq(c.psd_freq_min, f) /\ off >= 0)
        /\ RatLess(f, c.psd_freq_max) \/ (RatLeq(f, c.psd_freq_max) /\ off <= 0)

\* the frequencies the clip keeps of those of the Welch estimate
ClippedFrequencies(c, data) ==
    LET nperseg == Nperseg(c, data)
        kept == SelectSeq([i \in 1..(nperseg \div 2 + 1) |-> i - 1],
                          LAMBDA k : InClipRange(c, nperseg, k))
    IN  [n \in DOMAIN kept |-> <<kept[n] * c.sample_rate, nperseg>>]

\* C22: calculate_psd applies its steps in the fixed order detrend, division
\* by sensitivity, filter, Welch estimation, frequency clip, response
\* removal, instrument-type conversion, dB conversion, octave smoothing: the
\* first step that fails is the one that ends the call, and what the steps
\* before it store is stored.  The estimate is that of the samples after
\* the first three steps: detrended, so that nothing of their mean and trend
\* is in it, divided by the sensitivity before their power is taken, and
\* filtered.  The filter runs if and only if filter_enabled is true, the
\* response removal if and only if response_removal_enabled is true, and a
\* disabled step leaves the data unchanged.
C22_StepsInFixedOrder ==
    (constructed /\ outcome.op = "calculate_psd") =>
        LET data == outcome.arg
            welchFails == WelchRaises(Nperseg(calc, data), Noverlap(calc, data))
            clipped == ClippedFrequencies(calc, data)
        IN  IF InputError(data) # "" THEN outcome.error = InputError(data)
            ELSE IF calc.filter_enabled /\ FilterRaises(calc, data)
            THEN outcome.error = "filter design"
            ELSE IF welchFails THEN outcome.error = "welch"
            ELSE /\ calc.frequencies = clipped
                 /\ Len(calc.psd_v) = Len(clipped)
                 /\ \A n \in DOMAIN clipped :
                       /\ calc.psd_v[n].level =
                              LevelOfEstimate(calc, data, calc.psd_v[n].k)
                       /\ BinFreq(calc, Nperseg(calc, data), calc.psd_v[n].k) = clipped[n]
                 /\ IF calc.response_removal_enabled /\ calc.natural_period = 0
                    THEN outcome.error = "float division by zero"
                    ELSE /\ \A n \in DOMAIN clipped :
                               calc.psd_v[n].response_removed
                                   = calc.response_removal_enabled
                         /\ IF calc.instrument_type \notin {0, 1}
                            THEN outcome.error = "Invalid instrument type"
                            ELSE /\ Len(calc.psd) = Len(clipped)
                                 /\ \A n \in DOMAIN clipped :
                                       calc.psd[n] =
                                           calc.psd_v[n].level
                                           - (IF calc.response_removal_enabled
                                              THEN ResponseDb(clipped[n]) ELSE 0)
                                           + (IF calc.instrument_type = 0
                                              THEN OmegaDb(clipped[n]) ELSE 0)
                                 /\ IF clipped = <<>>
                                    THEN outcome.error = "index 0 is out of bounds"
                                    ELSE ~outcome.raised

\* a call that returned with the filter enabled and the response removal
\* disabled, on an instance of sensitivity 10 whose window is not the one it
\* was built with, and a segment that has a trend and that the filter
\* changes
C22_Witness ==
    /\ CalculateReturned
    /\ calc.filter_enabled /\ ~calc.response_removal_enabled
    /\ calc.sensitivity = 10
    /\ calc.window_type = "hamming"
    /\ \E n \in DOMAIN calc.psd_v :
          LET k == calc.psd_v[n].k
              row(detrended, filter, window) ==
                  WelchTable[<<outcome.arg.name, detrended, filter, window,
                               Nperseg(calc, outcome.arg), Noverlap(calc, outcome.arg)>>]
          IN  /\ row(TRUE, FilterOfEstimate(calc), "hamming")[k]
                    # row(TRUE, <<"none", 0, 1>>, "hamming")[k]
              /\ row(TRUE, FilterOfEstimate(calc), "hamming")[k]
                    # row(FALSE, FilterOfEstimate(calc), "hamming")[k]
              /\ row(TRUE, FilterOfEstimate(calc), "hamming")[k]
                    # row(TRUE, FilterOfEstimate(calc), "hann")[k]
              /\ calc.psd_v[n].level = row(TRUE, FilterOfEstimate(calc), "hamming")[k] - 20000
              /\ ~calc.psd_v[n].response_removed


\* C23: the Welch parameters of calculate_psd: nperseg = min(floor(
\* window_size * sample_rate), N) never exceeds the sample count N, and
\* noverlap = floor(overlap * nperseg) satisfies 0 <= noverlap < nperseg for
\* every overlap fraction in [0, 1) and every nperseg >= 1, so that the
\* estimate is not refused for them.  The product is the one of the doubles:
\* where it falls short of the whole number overlap * nperseg, noverlap is
\* that number less one.
C23_WelchParametersInRange ==
    ReachedWelch =>
        LET N == outcome.arg.size
            nperseg == Nperseg(calc, outcome.arg)
            noverlap == Noverlap(calc, outcome.arg)
        IN  /\ nperseg <= N
            /\ nperseg = N \/ nperseg = calc.window_size * calc.sample_rate
            /\ (calc.overlap >= 0 /\ calc.overlap < 100 /\ nperseg >= 1) =>
                  /\ 0 <= noverlap /\ noverlap < nperseg
                  /\ 100 * noverlap <= calc.overlap * nperseg
                  /\ \/ calc.overlap * nperseg < 100 * (noverlap + 1)
                     \/ /\ calc.overlap * nperseg = 100 * (noverlap + 1)
                        /\ <<calc.overlap, nperseg>> \in OverlapProductBelow
                  /\ outcome.error # "welch"

\* a call whose overlap is the longest a segment of its length allows, and
\* one with the segment cut to the sample count
C23_Witness ==
    /\ ReachedWelch
    /\ calc.overlap \in 1..99
    /\ Nperseg(calc, outcome.arg) = 4
    /\ Nperseg(calc, outcome.arg) < outcome.arg.size
    /\ Noverlap(calc, outcome.arg) = Nperseg(calc, outcome.arg) - 1
    /\ outcome.error # "welch"


(***************************************************************************)
(* C24, C27: the batch worker and what it leaves on disk                   *)
(***************************************************************************)
\* reader.read raises for the file, or gives nothing to take a trace from
ReadFails(f) ==
    \/ Lower(f.ext) \notin Readers
    \/ ~f.content.readable
    \/ Len(f.content.traces) = 0

\* calculate_psd raises for the first trace of the file under the settings
CalculateFails(w, f) ==
    CalculatePsd(Configure(NewCalculator(f.content.sampling_rate, w.sensitivity,
                                         w.instrument_type, w.natural_period), w),
                 f.content.traces[1]).raised

\* the pass of the loop for the file at index bi was made
PassMade == bi' = bi + 1

\* C24: a PSD artifact file is written for an input file only after
\* calculate_psd has completed successfully for it: when reading the file or
\* calculate_psd raises, no artifact is created or overwritten for that
\* file, and the failure is propagated to the batch loop (which logs it and
\* emits no progress for the file).
C24_ArtifactOnlyAfterSuccess ==
    [][PassMade =>
          LET f == file_list[bi]
              failed == ReadFails(f) \/ CalculateFails(settings, f)
          IN  /\ failed =>
                    /\ disk' = disk
                    /\ bsignals' = bsignals
                    /\ Len(blog') = Len(blog) + 3
                    /\ blog'[Len(blog')].level = "error"
                    /\ blog'[Len(blog')].file = f
              /\ disk' # disk => ~failed
              /\ \A q \in DOMAIN disk' : q # OutFile(f) =>
                    q \in DOMAIN disk /\ disk'[q] = disk[q]]_vars

\* a file whose calculate_psd raised has left in place the artifact that an
\* earlier file of the same stem and directory was given
C24_Witness ==
    /\ bpc = "loop" /\ bi = 3
    /\ ~ReadFails(file_list[2])
    /\ CalculateFails(settings, file_list[2])
    /\ file_list[1] # file_list[2]
    /\ OutFile(file_list[2]) \in DOMAIN disk
    /\ blog[Len(blog)].level = "error"


\* how many times the run has emitted finished
FinishedCount == Cardinality({n \in DOMAIN bsignals : bsignals[n] = <<"finished">>})

\* C27 (the claim as stated): PSDProcessingWorker.run emits the finished
\* signal exactly once on every path: empty file list, all files succeeding,
\* some or all files failing.
C27_FinishedExactlyOnce ==
    /\ FinishedCount <= 1
    /\ bpc = "done" => FinishedCount = 1


(***************************************************************************)
(* C25: the groups of one loading run                                      *)
(***************************************************************************)
\* what a run over the group g alone, with the same files, stores for it
AloneResult(g) ==
    LET fs == files[g] IN
    IF fs = <<>> \/ LoadPdfData(fs).raised THEN EmptyDict
    ELSE (g :> GroupData(g, fs, LoadPdfData(fs)))

\* C25: groups are aggregated independently in PSDLoadingWorker.run: a
\* failure while loading one group removes only that group from the result;
\* every other group's total_distribution is the sum of its own files only
\* (what a run over that group alone gives), and data_ready is still emitted
\* with the remaining groups.
C25_GroupsIndependent ==
    /\ pc \in {"loop", "done"} =>
          \A n \in 1..(gi - 1) :
             LET g == Keys(files)[n] IN
             /\ g \in DOMAIN result_data <=> g \in DOMAIN AloneResult(g)
             /\ g \in DOMAIN result_data =>
                   /\ result_data[g] = AloneResult(g)[g]
                   /\ result_data[g].total_distribution =
                          LoadPdfData(files[g]).total_distribution
    /\ (pc = "done" /\ DOMAIN files # {}) =>
          /\ gi = Len(Keys(files)) + 1
          /\ Cardinality({n \in DOMAIN signals : signals[n] = "data_ready"}) = 1

\* a run whose second group failed to load has emitted the first
C25_Witness ==
    /\ pc = "done"
    /\ DOMAIN files = {"g1", "g2"}
    /\ "g1" \in DOMAIN result_data
    /\ files["g2"] # <<>> /\ "g2" \notin DOMAIN result_data
    /\ \E n \in DOMAIN signals : signals[n] = "data_ready"
    /\ \E n \in DOMAIN log : log[n].level = "error" /\ log[n].group = "g2"


(***************************************************************************)
(* C28: the period bins against the retained points                        *)
(***************************************************************************)
BinningCalled == outcome.op = "_setup_period_binning" /\ ~outcome.raised

\* C28: every retained frequency point falls into at least one period bin:
\* for the bins built with smoothing width 1.0 octave and step 0.125 octave
\* over (min period, max period), the intervals [edges_left, edges_right]
\* begin below the shortest period, overlap from one bin to the next and end
\* at or above the longest period, so that no retained PSD point is left
\* out of the smoothing and histogram.
C28_EveryPointInSomeBin ==
    /\ SmoothCalled =>
          LET a == outcome.arg
              nb == Len(calc.psd_distribution)
          IN  /\ \A n \in DOMAIN a.ks : \E j \in 0..(nb - 1) : n \in PointsIn(a, j)
              /\ \E i \in DOMAIN outcome.returned[2] :
                     /\ outcome.returned[2][i] # NaN
                     /\ outcome.returned[2][i][2] >= 1
    /\ BinningCalled =>
          LET a == outcome.arg
              left == outcome.returned[1]
              right == outcome.returned[5]
              nb == Len(left)
          IN  /\ nb >= 1 /\ Len(right) = nb
              /\ left[1][3] < 0
              /\ \A j \in 1..(nb - 1) : left[j + 1][3] <= right[j][3]
              /\ \A j \in 1..nb : left[j][3] < right[j][3]
              /\ right[nb][3] % 2 = 0
              /\ CmpPow2(right[nb][3] \div 2, Pow8(a.kmin), Pow8(a.kmax)) >= 0

\* a point whose period meets the left edge of one bin and is left out of
\* it has been taken by another bin
C28_Witness ==
    /\ SmoothCalled
    /\ \E n \in DOMAIN outcome.arg.ks :
          /\ \E j \in 0..(Len(calc.psd_distribution) - 1) :
                n \in OnLeftEdge(outcome.arg, j) /\ n \notin PointsIn(outcome.arg, j)
          /\ \E j \in 0..(Len(calc.psd_distribution) - 1) : n \in PointsIn(outcome.arg, j)


(***************************************************************************)
(* C26, C29, C30: the dialog and its loading workers                       *)
(***************************************************************************)
\* the workers whose thread is running
Running == {i \in DOMAIN workers : IsRunning(workers[i])}

\* every thread has ended and every signal has had its slot
AllHandled == Running = {} /\ events = <<>>

\* the last of the workers whose run gave groups to plot, 0 if none did
LastWithData ==
    LET with == {i \in DOMAIN workers :
                    workers[i].last = "finished" /\ workers[i].groups # {}}
    IN  IF with = {} THEN 0 ELSE CHOOSE i \in with : \A k \in with : k <= i

\* once all workers have finished, none of them ended by an exception or by
\* closeEvent, current_plot_data is the result of the most recent plot()
\* request that gave any
NewestDataKept ==
    (AllHandled /\ \A i \in DOMAIN workers : workers[i].last = "finished")
        => dlg.current_plot_data.request = LastWithData

\* C26 (the claim as stated): at most one PSDLoadingWorker started by
\* PSDPDFDialog.plot is running at any time, so that current_plot_data, once
\* all workers have finished, is the result of the most recent plot()
\* request and is never overwritten by the data_ready of an older worker.
C26_OneWorkerAtATime ==
    /\ Cardinality(Running) <= 1
    /\ NewestDataKept


\* C29: after PSDPDFDialog.plot has disabled the Plot and Scan buttons, they
\* are eventually re-enabled on every termination path of the loading worker
\* (no files, data loaded, a group failing, an unexpected exception): every
\* run that returns ends with finished or error being emitted, and while the
\* dialog is open the two buttons get enabled again.
C29_ButtonsReenabled ==
    /\ [](\A i \in DOMAIN workers :
             workers[i].pc = "done" => workers[i].last \in {"finished", "error"})
    /\ ((workers # <<>> /\ ~dlg.plot_btn /\ ~dlg.scan_btn)
            ~> ((dlg.plot_btn /\ dlg.scan_btn) \/ dlg.closed))

\* two runs are over, one ended by an exception and one that gave its data
\* with the group that failed missing, and the buttons of the open dialog
\* are enabled again
C29_Witness ==
    /\ Len(workers) = 2 /\ AllHandled
    /\ ~dlg.closed
    /\ dlg.error_msg = "fault"
    /\ \E i \in DOMAIN workers :
          /\ workers[i].pc = "done" /\ workers[i].last = "finished"
          /\ workers[i].processed_files = CountFiles(workers[i].files)
          /\ workers[i].groups # {}
          /\ workers[i].groups # DOMAIN workers[i].files
    /\ dlg.plot_btn /\ dlg.scan_btn

\* C30: in PSDPDFDialog, after any sequence of data-loaded, next-page,
\* previous-page and grid-change events, 1 <= current_page <= total_pages
\* holds, where total_pages = max(1, ceil(number of groups / (rows * cols)))
\* whenever plot data is present.
C30_PageWithinPages ==
    /\ 1 <= dlg.current_page /\ dlg.current_page <= dlg.total_pages
    /\ HasPlotData(dlg) =>
          LET n == Cardinality(dlg.current_plot_data.groups)
              per == dlg.rows * dlg.cols
          IN  /\ dlg.total_pages * per >= n
              /\ dlg.total_pages > 1 => (dlg.total_pages - 1) * per < n
    /\ dlg.page_indicator[1] <= dlg.page_indicator[2]

\* the last of three pages is shown: three groups, one to a page
C30_Witness ==
    /\ HasPlotData(dlg)
    /\ Cardinality(dlg.current_plot_data.groups) = 3
    /\ dlg.rows * dlg.cols = 1
    /\ dlg.current_page = 3 /\ dlg.total_pages = 3
    /\ dlg.shown[2] = 2 /\ dlg.shown[3] = 3

====
